---------------------------- MODULE Spec2Model ----------------------------
(***************************************************************************)
(* A model of memory_tracker: the source transform (injector.py,           *)
(* instrumentor.py), the module-load interceptor (importer.py), the        *)
(* execution host (instrumentor.py, cli.py), the probe, the event pipeline *)
(* the file backend (profiler.py), the relational backend                  *)
(* (sqlite_profile_handler.py) and the command line (cli.py).              *)
(*                                                                         *)
(* Each subsystem has its own specification over the shared variable list; *)
(* the variables of the other subsystems keep their initial values:        *)
(*   SpecPipeline    emit, the consumer thread (_worker), shutdown         *)
(*   SpecTransform   instrument_source applied to a source, then again     *)
(*   SpecImporter    find_spec and exec_module for one module load         *)
(*   SpecHost        run_instrumented around the target program            *)
(*   SpecProbe       tracked_profile's wrapper around wrapped callables    *)
(*   SpecManager     SpecPipeline with a thread calling set_handler        *)
(*   SpecShutdown    SpecPipeline with the shutdown caller scheduled       *)
(*   SpecStop        SpecPipeline with the consumer thread scheduled       *)
(*   SpecFile        handle and close of one JsonFileProfileHandler        *)
(*   SpecSqlite      handle and close of one SQLiteProfileHandler          *)
(*   SpecCli         cli.main around run_instrumented                      *)
(***************************************************************************)
EXTENDS Naturals, Integers, Sequences, FiniteSets, TLC

VARIABLES
    \* ---- source transform ----
    src,        \* the parsed source module given to the first transform
    prevTree,   \* the tree before the latest instrument_source call
    tree,       \* the tree after the latest instrument_source call
    passes,     \* number of instrument_source calls made so far
    \* ---- module-load interceptor (SourceTransformImporter) ----
    base_path,  \* self.base_path, a path string
    baseDir,    \* the base directory as given to the constructor (components)
    icwd,       \* the working directory when the import is requested
    request,    \* the current load request: what PathFinder and the file give
    ipc,        \* "idle" | "claimed" | "declined" | "loaded"
    origin_path,\* spec.origin_path set by find_spec ("" if not set)
    load,       \* result of the load: outcome, namespace, reported, bodyExecs
    \* ---- execution host (run_instrumented) ----
    hpc,        \* "idle" | "prepared" | "executing" | "executed" | "exited"
    entry,      \* the run's input: kind of entry file, extra_argv
    cwd,        \* the process working directory
    sys_path,   \* sys.path
    sys_argv,   \* sys.argv
    meta_path,  \* sys.meta_path
    old_cwd,    \* prepare_instrumented_code's old_cwd
    sys_argv_saved, \* execute_instrumented_code's sys_argv_saved
    outcome,    \* how the run left run_instrumented: [exc, code]
    targetActed,\* the target program has changed argv or the resolution chain
    atStart,    \* cwd, sys.path, sys.argv, sys.meta_path before the run
    execStarted,\* exec(code_obj, module_globals) has been entered
    targetEnd,  \* how the entry unit ended: [exc, code]
    traceback_printed,  \* traceback.print_exc() has run
    \* ---- event pipeline (ProfileManager) ----
    queue,      \* self._queue: entries and sentinels, oldest first
    stop_event, \* self._stop_event
    handler,    \* self._handler: the active backend
    backends,   \* per backend: the entries it received, whether it is closed
    wpc,        \* the consumer thread's position in _worker
    wentry,     \* _worker's local entry
    whandler,   \* the backend whose handle the consumer is inside
    wret,       \* the loop of _worker that called handle: "while" | "drain"
    spc,        \* the position of the thread calling shutdown
    shutdowns,  \* number of shutdown calls started
    joinTimedOut,   \* the latest join(timeout) returned with the consumer alive
    emitted,    \* the entries emit has returned for, in order
    emittedAtShutdown,  \* emitted when the latest shutdown was called
    dropped,    \* the entries for which handle raised
    drainHandled,   \* number of entries handled by the drain loop
    reported,   \* the entries whose handle failure was printed
    instances,  \* number of ProfileManager instances (and consumer threads)
    set_pc,     \* the position of the thread calling set_handler
    set_arg,    \* set_handler's argument handler
    old,        \* set_handler's local old
    set_close_raised,   \* old.close() raised in the latest set_handler
    set_handlers,   \* number of set_handler calls started
    replaced,   \* the backend the latest returned set_handler replaced
    wdeq,       \* what held when the consumer dequeued wentry
    passed,     \* the entries handle was called with, in order
    wcall,      \* the latest handle call: backend, set_handler calls, wdeq
    backend_ops,    \* the backend operations invoked so far: op, thread
    \* ---- probe (tracked_profile.wrapper) ----
    stack,      \* the wrapper invocations in progress, innermost last
    calls,      \* the wrapper invocations that have ended, in order of ending
    clock,      \* time.time()
    \* ---- file backend (JsonFileProfileHandler) ----
    file,       \* what has been written to self._file, in order
    file_closed,\* self._file is closed
    first,      \* self._first
    lock,       \* the thread that holds self._lock
    fpc,        \* per thread: its position in handle or close
    farg,       \* per thread: the entry given to its handle call
    handles,    \* number of handle calls begun
    closes,     \* number of close calls begun
    completed,  \* the entries whose handle call returned, in order
    \* ---- relational backend (SQLiteProfileHandler) ----
    db,         \* the database file: what has been committed
    conn,       \* the database as self.conn sees it, uncommitted rows included
    conn_open,  \* self.conn has not been closed
    sql_calls,  \* the handle calls made, in order: entry, raised, rowid
    \* ---- command line (cli.main) ----
    cpc,        \* "start" | "file_checked" | "run_instrumented" | "exited"
    is_file,    \* os.path.isfile(args.script)
    has_memory_profiler,    \* import memory_profiler succeeds
    exit_status \* the exit status of the process

transformVars == <<src, prevTree, tree, passes>>
importerVars == <<base_path, baseDir, icwd, request, ipc, origin_path, load>>
hostVars == <<hpc, entry, cwd, sys_path, sys_argv, meta_path, old_cwd,
              sys_argv_saved, outcome, targetActed, atStart, execStarted,
              targetEnd, traceback_printed>>

pipelineVars == <<queue, stop_event, handler, backends, wpc, wentry, whandler,
                  wret, spc, shutdowns, joinTimedOut, emitted,
                  emittedAtShutdown, dropped, drainHandled>>

managerVars == <<reported, instances, set_pc, set_arg, old, set_close_raised,
                 set_handlers, replaced, wdeq, passed, wcall, backend_ops>>

probeVars == <<stack, calls, clock>>

fileVars == <<file, file_closed, first, lock, fpc, farg, handles, closes,
              completed>>

sqlVars == <<db, conn, conn_open, sql_calls>>

cliVars == <<cpc, is_file, has_memory_profiler, exit_status>>

vars == <<src, prevTree, tree, passes,
          base_path, baseDir, icwd, request, ipc, origin_path, load,
          hpc, entry, cwd, sys_path, sys_argv, meta_path, old_cwd,
          sys_argv_saved, outcome, targetActed, atStart, execStarted,
          targetEnd, traceback_printed,
          queue, stop_event, handler, backends, wpc, wentry, whandler,
          wret, spc, shutdowns, joinTimedOut, emitted,
          emittedAtShutdown, dropped, drainHandled,
          reported, instances, set_pc, set_arg, old, set_close_raised,
          set_handlers, replaced, wdeq, passed, wcall, backend_ops,
          stack, calls, clock,
          file, file_closed, first, lock, fpc, farg, handles, closes,
          completed,
          db, conn, conn_open, sql_calls,
          cpc, is_file, has_memory_profiler, exit_status>>

(***************************************************************************)
(* Bounds of the model.                                                    *)
(***************************************************************************)
MaxDecos == 2     \* longest decorator list of a source function
MaxFuture == 1    \* most leading "from __future__ import" statements
MaxBaseDepth == 2 \* most directory components of a base directory
MaxOriginDepth == 2 \* most directory components of a module origin

(***************************************************************************)
(* Generic helpers.                                                        *)
(***************************************************************************)
SeqsUpTo(S, n) == UNION {[1..k -> S] : k \in 0..n}

InsertAt(s, idx, x) == SubSeq(s, 1, idx) \o <<x>> \o SubSeq(s, idx + 1, Len(s))

(***************************************************************************)
(* The syntax tree (Python's ast).  Every statement node carries the same  *)
(* fields; a field a node kind does not have is empty.                     *)
(*   kind            "Expr" | "Pass" | "ImportFrom" | "Import" |           *)
(*                   "FunctionDef" | "AsyncFunctionDef" | "ClassDef"       *)
(*   value           "str" for an Expr holding a string constant           *)
(*   module          ImportFrom.module                                     *)
(*   names           sequence of alias records [name, asname]              *)
(*   decorator_list  sequence of decorator expressions [kind, id]          *)
(*   body            sequence of statement nodes                           *)
(* A decorator expression is [kind |-> "Name", id], [kind |-> "Attribute", *)
(* id] (id is the attr, the last component of the dotted name) or          *)
(* [kind |-> "Call", id] (id names the callee).  asname "" is None.        *)
(***************************************************************************)
Stmt(k, v, m, n, d, b) ==
    [kind |-> k, value |-> v, module |-> m, names |-> n,
     decorator_list |-> d, body |-> b]

PassStmt == Stmt("Pass", "", "", <<>>, <<>>, <<>>)
DocString == Stmt("Expr", "str", "", <<>>, <<>>, <<>>)
ImportFrom(m, n) == Stmt("ImportFrom", "", m, n, <<>>, <<>>)
Import(n) == Stmt("Import", "", "", n, <<>>, <<>>)
Def(k, d, b) == Stmt(k, "", "", <<>>, d, b)
Alias(n, a) == [name |-> n, asname |-> a]
Name(i) == [kind |-> "Name", id |-> i]
Attribute(i) == [kind |-> "Attribute", id |-> i]
Call(i) == [kind |-> "Call", id |-> i]
Module(b) == [body |-> b]

FunctionKinds == {"FunctionDef", "AsyncFunctionDef"}

(***************************************************************************)
(* instrument_source's arguments to ensure_module_import and to            *)
(* DecoratorInjector.                                                      *)
(***************************************************************************)
ProbeModule == "memory_tracker.profiler"
ProbeName == "tracked_profile"
ProbeAlias == "m__mp_profile"

known_decorators ==
    {"m__mp_profile", "tracked_profile", "property", "setter", "getter",
     "delete", "staticmethod"}

decorator_name == ProbeAlias

(***************************************************************************)
(* injector.py                                                             *)
(***************************************************************************)
has_decorator_NoAlias(node) ==
    \E i \in DOMAIN node.decorator_list :
        LET d == node.decorator_list[i]
        IN  \/ d.kind = "Name" /\ d.id \in known_decorators \ {ProbeAlias}
            \/ d.kind = "Attribute" /\ d.id \in known_decorators

has_decorator(node) ==
    \E i \in DOMAIN node.decorator_list :
        LET d == node.decorator_list[i]
        IN  \/ d.kind = "Name" /\ d.id \in known_decorators
            \/ d.kind = "Attribute" /\ d.id \in known_decorators

\* the tail of visit_FunctionDef / visit_AsyncFunctionDef, after generic_visit
inject_decorator(node) ==
    IF ~has_decorator(node)
    THEN [node EXCEPT !.decorator_list = <<Name(decorator_name)>> \o @]
    ELSE node

RECURSIVE visit(_)
generic_visit(node) ==
    [node EXCEPT !.body = [i \in DOMAIN node.body |-> visit(node.body[i])]]

visit_FunctionDef(node) == inject_decorator(generic_visit(node))

visit_AsyncFunctionDef(node) == inject_decorator(generic_visit(node))

visit(node) ==
    CASE node.kind = "FunctionDef" -> visit_FunctionDef(node)
      [] node.kind = "AsyncFunctionDef" -> visit_AsyncFunctionDef(node)
      [] OTHER -> generic_visit(node)

\* NodeTransformer.visit on the Module node: generic_visit over its body
visit_Module(t) == [t EXCEPT !.body = [i \in DOMAIN t.body |-> visit(t.body[i])]]

(***************************************************************************)
(* instrumentor.py: the import of the probe                                *)
(***************************************************************************)
IsDocstring(node) == node.kind = "Expr" /\ node.value = "str"

IsFutureImport(node) == node.kind = "ImportFrom" /\ node.module = "__future__"

RECURSIVE skip_future(_, _)
skip_future(body, idx) ==
    IF idx < Len(body) /\ IsFutureImport(body[idx + 1])
    THEN skip_future(body, idx + 1)
    ELSE idx

\* the index is 0-based as in the source: the number of statements before
\* the insertion point
find_insertion_index_for_imports(module_node) ==
    LET body == module_node.body
        idx == IF Len(body) > 0 /\ IsDocstring(body[1]) THEN 1 ELSE 0
    IN  skip_future(body, idx)

import_exists(t, module_name, alias_name) ==
    \E i \in DOMAIN t.body :
        LET node == t.body[i]
        IN  \/ /\ node.kind = "ImportFrom"
               /\ node.module = module_name
               /\ \E j \in DOMAIN node.names : node.names[j].name = alias_name
            \/ /\ node.kind = "Import"
               /\ \E j \in DOMAIN node.names : node.names[j].name = module_name

ensure_module_import(t, module_name, alias_name, asname) ==
    IF import_exists(t, module_name, alias_name)
    THEN t
    ELSE [t EXCEPT !.body =
            InsertAt(@, find_insertion_index_for_imports(t),
                     ImportFrom(module_name, <<Alias(alias_name, asname)>>))]

\* the tree instrument_source returns (the code object is compiled from it)
instrument_source(t) ==
    visit_Module(ensure_module_import(t, ProbeModule, ProbeName, ProbeAlias))

\* the transform variables while another subsystem runs
TransformIdle ==
    /\ src = Module(<<>>)
    /\ prevTree = src
    /\ tree = src
    /\ passes = 0

(***************************************************************************)
(* importer.py.  A path string is a sequence of characters; a path is      *)
(* given by its components, each a sequence of characters.                 *)
(***************************************************************************)
DirA == <<"a">>
DirAB == <<"a", "b">>
DirL == <<"l">>
DotDot == <<".", ".">>
FilePy == <<"m", ".", "p", "y">>
FilePyc == <<"m", ".", "p", "y", "c">>
FileSo == <<"m", ".", "s", "o">>

DirNames == {DirA, DirAB, DirL}
FileNames == {FilePy, FilePyc, FileSo}

RECURSIVE Render(_)
\* the string of an absolute path: "/" + "/".join(components)
Render(comps) ==
    IF comps = <<>> THEN <<>>
    ELSE <<"/">> \o Head(comps) \o Render(Tail(comps))

PathString(comps) == IF comps = <<>> THEN <<"/">> ELSE Render(comps)

RECURSIVE normpath(_, _)
\* os.path.normpath on the components of an absolute path: ".." removes
\* the component before it, and stays at the root
normpath(comps, acc) ==
    IF comps = <<>> THEN acc
    ELSE IF Head(comps) = DotDot
         THEN normpath(Tail(comps),
                       IF acc = <<>> THEN acc ELSE SubSeq(acc, 1, Len(acc) - 1))
         ELSE normpath(Tail(comps), Append(acc, Head(comps)))

\* os.path.abspath: a relative path is joined to the working directory,
\* then normalised; p is [absolute, comps]
abspath_components(p, wd) ==
    normpath(IF p.absolute THEN p.comps ELSE wd \o p.comps, <<>>)

abspath(p, wd) == PathString(abspath_components(p, wd))

startswith(str, prefix) ==
    Len(prefix) <= Len(str) /\ SubSeq(str, 1, Len(prefix)) = prefix

endswith(str, suffix) ==
    Len(suffix) <= Len(str)
        /\ SubSeq(str, Len(str) - Len(suffix) + 1, Len(str)) = suffix

DotPy == <<".", "p", "y">>

\* what PathFinder.find_spec gives for a request:
\*   "ModuleNotFoundError"  it raises
\*   "None"                 no spec
\*   "no_origin"            a spec without origin (a namespace package)
\*   "origin"               a spec whose origin is the path request.origin
Resolutions == {"ModuleNotFoundError", "None", "no_origin", "origin"}

\* SourceTransformImporter.find_spec: "" when it returns None, else the
\* origin_path of the spec it claims
find_spec(req, base, wd) ==
    IF req.resolution # "origin" THEN ""
    ELSE LET mod_path == abspath(req.origin, wd)
         IN  IF ~startswith(mod_path, base) THEN ""
             ELSE IF ~endswith(mod_path, DotPy) THEN ""
             ELSE mod_path

\* importlib.util has no attribute exec_module: evaluating
\* importlib.util.exec_module raises AttributeError
importlib_util_exec_module == "AttributeError"

\* exceptions that "except Exception" does not catch
BaseExceptionsOnly == {"SystemExit", "KeyboardInterrupt"}

\* SourceTransformImporter.exec_module for a module whose spec find_spec
\* claimed.  req.read, req.transform, req.body are "ok" or the exception
\* that reading the file, instrument_source, and executing the module's
\* top-level code raise.
exec_module(req) ==
    LET raised == IF req.read # "ok" THEN req.read
                  ELSE IF req.transform # "ok" THEN req.transform
                  ELSE req.body
        executed == req.read = "ok" /\ req.transform = "ok"
    IN  IF raised = "ok"
        THEN [outcome |-> "ok", namespace |-> "instrumented",
              reported |-> FALSE, bodyExecs |-> 1]
        ELSE IF raised \in BaseExceptionsOnly
        THEN [outcome |-> raised, namespace |-> "partial",
              reported |-> FALSE, bodyExecs |-> 1]
        ELSE \* except Exception: print, traceback.print_exc(), fallback
             [outcome |-> importlib_util_exec_module,
              namespace |-> IF executed THEN "partial" ELSE "none",
              reported |-> TRUE,
              bodyExecs |-> IF executed THEN 1 ELSE 0]

\* the rest of the resolution chain loads a module the interceptor
\* declined: the default loader executes the file as it is
default_load(req) ==
    IF req.resolution # "origin"
    THEN [outcome |-> "ModuleNotFoundError", namespace |-> "none",
          reported |-> FALSE, bodyExecs |-> 0]
    ELSE [outcome |-> IF req.read # "ok" THEN req.read
                      ELSE IF req.transform # "ok" THEN req.transform
                      ELSE req.body,
          namespace |-> IF req.read = "ok" /\ req.transform = "ok"
                        THEN (IF req.body = "ok" THEN "original" ELSE "partial")
                        ELSE "none",
          reported |-> FALSE,
          bodyExecs |-> IF req.read = "ok" /\ req.transform = "ok" THEN 1 ELSE 0]

BaseDirs == SeqsUpTo(DirNames, MaxBaseDepth)

Origins ==
    [absolute : BOOLEAN,
     comps : { d \o <<f>> : d \in SeqsUpTo(DirNames \cup {DotDot}, MaxOriginDepth),
                            f \in FileNames }]

NoOrigin == [absolute |-> TRUE, comps |-> <<>>]

ReadOutcomes == {"ok", "OSError", "UnicodeDecodeError"}
TransformOutcomes == {"ok", "SyntaxError"}
BodyOutcomes == {"ok", "ValueError", "SystemExit"}

\* the outcomes of reading, transforming and executing one file: a later
\* stage is only reached when the earlier ones succeed
FileOutcomes ==
    { o \in [read : ReadOutcomes, transform : TransformOutcomes, body : BodyOutcomes] :
        /\ o.read # "ok" => o.transform = "ok" /\ o.body = "ok"
        /\ o.transform # "ok" => o.body = "ok" }

Request(res, o, f) ==
    [resolution |-> res, origin |-> o,
     read |-> f.read, transform |-> f.transform, body |-> f.body]

NoFile == [read |-> "ok", transform |-> "ok", body |-> "ok"]

NoRequest == Request("None", NoOrigin, NoFile)

NoLoad == [outcome |-> "none", namespace |-> "none", reported |-> FALSE,
           bodyExecs |-> 0]

ImporterIdle ==
    /\ baseDir = <<>>
    /\ base_path = PathString(<<>>)
    /\ icwd = <<>>
    /\ request = NoRequest
    /\ ipc = "idle"
    /\ origin_path = ""
    /\ load = NoLoad

(***************************************************************************)
(* instrumentor.py: the execution host.  Directories, finders and          *)
(* arguments are named by strings.                                         *)
(***************************************************************************)
MaxExtraArgs == 1   \* most pass-through arguments of a run

TargetDir == "target_dir"      \* os.path.dirname(abspath)
EntryPath == "target_dir/entry.py"   \* abspath
Importer == "SourceTransformImporter"

\* what the entry file is like:
\*   "ok"               readable, decodable, transformable
\*   "missing_dir"      its directory does not exist: os.chdir raises
\*   "unreadable"       open() raises OSError
\*   "undecodable"      not UTF-8: f.read() raises UnicodeDecodeError
\*   "syntax_error"     instrument_source raises SyntaxError
\*   "transform_error"  instrument_source raises another exception
\*                      (ValueError of ast.parse, RecursionError of compile)
EntryKinds ==
    {"ok", "missing_dir", "unreadable", "undecodable", "syntax_error",
     "transform_error"}

\* how the executed entry unit ends
TargetEndings == {"normal", "SystemExit", "Exception", "KeyboardInterrupt"}

ExitCodes == {0, 3}

Outcome(e, c) == [exc |-> e, code |-> c]

NoOutcome == Outcome("pending", 0)

\* list.remove(x): the first occurrence is removed; ValueError if absent
list_remove_raises(s, x) == \A i \in DOMAIN s : s[i] # x

list_remove(s, x) ==
    LET i == CHOOSE i \in DOMAIN s : s[i] = x /\ \A j \in 1..(i - 1) : s[j] # x
    IN  SubSeq(s, 1, i - 1) \o SubSeq(s, i + 1, Len(s))

\* try: list.remove(x) except ValueError: pass
remove_if_present(s, x) == IF list_remove_raises(s, x) THEN s ELSE list_remove(s, x)

\* prepare_instrumented_code.cleanup: [cwd, sys_path] after it
cleanup(saved_cwd, path) ==
    [cwd |-> saved_cwd, sys_path |-> remove_if_present(path, TargetDir)]

\* prepare_instrumented_code for an entry of kind k, from working directory
\* c and search path p: [cwd, sys_path, outcome]; outcome.exc is "none"
\* when it returns
prepare_instrumented_code_SyntaxErrorIgnored(k, c, p) ==
    LET inserted == <<TargetDir>> \o p
        cleaned == cleanup(c, inserted)
    IN  CASE k = "missing_dir" ->
                [cwd |-> c, sys_path |-> inserted, outcome |-> Outcome("OSError", 0)]
          [] k = "unreadable" ->
                [cwd |-> cleaned.cwd, sys_path |-> cleaned.sys_path,
                 outcome |-> Outcome("SystemExit", 1)]
          [] k = "undecodable" ->
                [cwd |-> TargetDir, sys_path |-> inserted,
                 outcome |-> Outcome("UnicodeDecodeError", 0)]
          [] k = "transform_error" ->
                [cwd |-> TargetDir, sys_path |-> inserted,
                 outcome |-> Outcome("ValueError", 0)]
          [] OTHER ->
                [cwd |-> TargetDir, sys_path |-> inserted,
                 outcome |-> Outcome("none", 0)]

prepare_instrumented_code(k, c, p) ==
    LET inserted == <<TargetDir>> \o p
        cleaned == cleanup(c, inserted)
    IN  CASE k = "missing_dir" ->
                [cwd |-> c, sys_path |-> inserted, outcome |-> Outcome("OSError", 0)]
          [] k = "unreadable" ->
                [cwd |-> cleaned.cwd, sys_path |-> cleaned.sys_path,
                 outcome |-> Outcome("SystemExit", 1)]
          [] k = "undecodable" ->
                [cwd |-> TargetDir, sys_path |-> inserted,
                 outcome |-> Outcome("UnicodeDecodeError", 0)]
          [] k = "syntax_error" ->
                [cwd |-> cleaned.cwd, sys_path |-> cleaned.sys_path,
                 outcome |-> Outcome("SystemExit", 1)]
          [] k = "transform_error" ->
                [cwd |-> TargetDir, sys_path |-> inserted,
                 outcome |-> Outcome("ValueError", 0)]
          [] OTHER ->
                [cwd |-> TargetDir, sys_path |-> inserted,
                 outcome |-> Outcome("none", 0)]

\* the finally block of execute_instrumented_code: sys.argv after it
finally_argv_OnlyOnReturn(saved, current, ending) ==
    IF ending = "normal" THEN saved ELSE current

finally_argv(saved, current, ending) == saved

\* how execute_instrumented_code is left when the entry unit ends as e
\* (a SystemExit of the target carries code c)
execute_outcome_ExitOne(e, c) ==
    CASE e = "normal" -> Outcome("none", 0)
      [] e = "SystemExit" -> Outcome("SystemExit", 1)
      [] e = "Exception" -> Outcome("SystemExit", 1)
      [] OTHER -> Outcome(e, 0)

execute_outcome(e, c) ==
    CASE e = "normal" -> Outcome("none", 0)
      [] e = "SystemExit" -> Outcome("SystemExit", c)
      [] e = "Exception" -> Outcome("SystemExit", 1)
      [] OTHER -> Outcome(e, 0)

\* except Exception: traceback.print_exc() runs for an exception of the
\* entry unit that is neither SystemExit nor KeyboardInterrupt
execute_prints_traceback(e) == e = "Exception"

\* cli.main around run_instrumented: the exit status of the process when
\* run_instrumented is left as o
main_exit_status_InterruptAsFault(o) ==
    CASE o.exc = "none" -> 0
      [] o.exc = "SystemExit" -> o.code
      [] OTHER -> 1

main_exit_status(o) ==
    CASE o.exc = "none" -> 0
      [] o.exc = "SystemExit" -> o.code
      [] o.exc = "KeyboardInterrupt" -> 130
      [] OTHER -> 1

Entries == [kind : EntryKinds, extra : SeqsUpTo({"arg"}, MaxExtraArgs)]

NoEntry == [kind |-> "ok", extra |-> <<>>]

Before(c, p, a, m) == [cwd |-> c, sys_path |-> p, sys_argv |-> a, meta_path |-> m]

HostIdle ==
    /\ hpc = "idle"
    /\ entry = NoEntry
    /\ cwd = "start_dir"
    /\ sys_path = <<"site-packages">>
    /\ sys_argv = <<"memory-tracker">>
    /\ meta_path = <<"PathFinder">>
    /\ old_cwd = ""
    /\ sys_argv_saved = <<>>
    /\ outcome = NoOutcome
    /\ targetActed = FALSE
    /\ atStart = Before(cwd, sys_path, sys_argv, meta_path)
    /\ execStarted = FALSE
    /\ targetEnd = NoOutcome
    /\ traceback_printed = FALSE

(***************************************************************************)
(* profiler.py: the event pipeline.  An entry is [id, good]: good is FALSE *)
(* for an entry the backend's handle raises on.  The sentinel None has     *)
(* id 0.                                                                   *)
(***************************************************************************)
MaxEmit == 3        \* most entries emitted
MaxShutdowns == 2   \* most shutdown calls

None == [id |-> 0, good |-> TRUE]

Entry(i, g) == [id |-> i, good |-> g]

DefaultBackend == "JsonFileProfileHandler"

BackendIds == {DefaultBackend, "SQLiteProfileHandler"}

NoBackend == "None"

NewBackend == [received |-> <<>>, closed |-> FALSE]

\* backend.handle(entry): [backend, raised].  A JsonFileProfileHandler
\* whose file is closed raises on the write; the entry is then not stored
handle(b, e) ==
    IF b.closed \/ ~e.good
    THEN [backend |-> b, raised |-> TRUE]
    ELSE [backend |-> [b EXCEPT !.received = Append(@, e)], raised |-> FALSE]

\* backend.close()
close(b) == [b EXCEPT !.closed = TRUE]

\* whether backend.close() raises: JsonFileProfileHandler.close writes the
\* closing bracket first, a ValueError on a file that is closed already;
\* sqlite3's Connection.close() may be repeated
close_raises(id, b) == id = DefaultBackend /\ b.closed

\* JsonFileProfileHandler runs handle and close under self._lock;
\* SQLiteProfileHandler takes no lock in either
has_lock(id) == id = DefaultBackend

\* ProfileManager.__new__: the number of instances after ProfileManager()
ProfileManager_new_Always(n) == n + 1

ProfileManager_new(n) == IF n = 0 THEN 1 ELSE n

\* set_handler: self._handler after the try/except around old.close()
set_handler_result_KeepOnFailure(old_id, new_id, close_failed) ==
    IF close_failed THEN old_id ELSE new_id

set_handler_result(old_id, new_id, close_failed) == new_id

\* whether a failure of handle is printed: in the while loop yes, in the
\* loop that empties the queue no (except Exception: pass)
failure_printed(loop) == loop = "while"

MaxSetHandlers == 1     \* most set_handler calls
MaxSwapEmit == 2        \* most entries emitted in runs with set_handler

Consumer == "consumer thread"
ShutdownCaller == "thread calling shutdown"
SetHandlerCaller == "thread calling set_handler"

BackendOp(o, t) == [op |-> o, thread |-> t]

\* at a dequeue: the active backend, the set_handler calls started, none
\* in progress
Dequeue(a, n, st) == [active |-> a, calls |-> n, stable |-> st]

NoDequeue == Dequeue(DefaultBackend, 0, TRUE)

\* a handle call: the backend it is made on, the backend the latest
\* returned set_handler replaced, the set_handler calls started by then,
\* and what held when its entry was dequeued
HandleCall(b, r, n, dq) == [backend |-> b, replaced |-> r, calls |-> n, deq |-> dq]

NoCall == HandleCall(DefaultBackend, NoBackend, 0, NoDequeue)

\* where _worker goes when its while loop ends (by the stop flag or by the
\* sentinel): to the loop that empties the queue
after_while_NoDrain == "done"

after_while == "drain"

\* the loop that empties the queue, for a dequeued entry: if entry is not
\* None, handle is called; the loop goes on
drain_next_SentinelHandled(e) == "call"

drain_next(e) == IF e = None THEN "drain" ELSE "call"

\* the state after _init_once
PipelineIdle ==
    /\ queue = <<>>
    /\ stop_event = FALSE
    /\ handler = DefaultBackend
    /\ backends = [b \in BackendIds |-> NewBackend]
    /\ wpc = "while"
    /\ wentry = None
    /\ whandler = DefaultBackend
    /\ wret = "while"
    /\ spc = "idle"
    /\ shutdowns = 0
    /\ joinTimedOut = FALSE
    /\ emitted = <<>>
    /\ emittedAtShutdown = <<>>
    /\ dropped = <<>>
    /\ drainHandled = 0
    /\ reported = <<>>
    /\ instances = 1
    /\ set_pc = "idle"
    /\ set_arg = DefaultBackend
    /\ old = DefaultBackend
    /\ set_close_raised = FALSE
    /\ set_handlers = 0
    /\ replaced = NoBackend
    /\ wdeq = NoDequeue
    /\ passed = <<>>
    /\ wcall = NoCall
    /\ backend_ops = {}

(***************************************************************************)
(* profiler.py: the probe, tracked_profile(func).wrapper.  A wrapped       *)
(* callable is [qualname, has_code]; has_code is FALSE for a callable of   *)
(* which memory_profiler cannot extract a code object.                     *)
(***************************************************************************)
MaxCalls == 2   \* most invocations of wrapped callables
MaxDepth == 2   \* deepest nesting of wrapped calls

Callables ==
    {[qualname |-> "f", has_code |-> TRUE],
     [qualname |-> "Cls.method", has_code |-> TRUE],
     [qualname |-> "len", has_code |-> FALSE]}

Values == {"v1", "v2"}          \* what a callable returns

BodyExceptions == {"ValueError", "KeyError"}    \* what a callable raises

MemSamples == {10, 12}          \* memory_usage(...)[0], in MiB

SamplingError == "SamplingError"    \* what a failing memory_usage raises

Returned(v) == [kind |-> "returned", val |-> v]

Raised(x) == [kind |-> "raised", val |-> x]

NotInvoked == [kind |-> "not_invoked", val |-> ""]

\* the wrapper's locals at its first line: start = time.time()
Frame(t, f) ==
    [start |-> t, func |-> f, pc |-> "mem_before", mem_before |-> 0,
     mem_after |-> 0, result |-> "", log |-> "", invoked |-> 0, emits |-> 0]

\* what stream holds after profile(stream=stream)(func) has run func: the
\* line-by-line report, nothing for a callable without a code object
profile_log(f) == IF f.has_code THEN "line-by-line" ELSE ""

\* the entry dict the wrapper builds
ProfileEntry_DiffFromZero(fr) ==
    [func |-> fr.func.qualname,
     mem_before |-> fr.mem_before,
     mem_after |-> fr.mem_after,
     mem_diff |-> fr.mem_after,
     timestamp |-> fr.start,
     log |-> fr.log]

ProfileEntry(fr) ==
    [func |-> fr.func.qualname,
     mem_before |-> fr.mem_before,
     mem_after |-> fr.mem_after,
     mem_diff |-> fr.mem_after - fr.mem_before,
     timestamp |-> fr.start,
     log |-> fr.log]

\* what the wrapper returns when the callable returned result
wrapper_result_Constant(result) == "v1"

wrapper_result(result) == result

\* how the wrapper is left when the callable raises x: there is no except
\* clause, x passes through
on_body_exception_Replaced(x) == Raised("RuntimeError")

on_body_exception(x) == Raised(x)

\* the record of an ended invocation: how the callable ended (body) and how
\* the wrapper was left
Ended(fr, b, w) ==
    [start |-> fr.start, func |-> fr.func, invoked |-> fr.invoked,
     emits |-> fr.emits, body |-> b, wrapper |-> w]

Top == stack[Len(stack)]

SetTop(fr) == [stack EXCEPT ![Len(stack)] = fr]

Pop == SubSeq(stack, 1, Len(stack) - 1)

ProbeIdle ==
    /\ stack = <<>>
    /\ calls = <<>>
    /\ clock = 0

(***************************************************************************)
(* profiler.py: JsonFileProfileHandler.  What is written to the file is a  *)
(* sequence of tokens: the opening bracket, a separator, an entry's JSON   *)
(* text, the text json.dump had written of an entry when it raised, the    *)
(* closing bracket.                                                        *)
(***************************************************************************)
MaxWriters == 2     \* most threads calling handle
MaxHandles == 3     \* most handle calls
MaxCloses == 2      \* most close calls

Writers == 1..MaxWriters

Closer == 0         \* the thread calling close

NoThread == -1

Threads == Writers \cup {Closer}

Token(k, i) == [kind |-> k, id |-> i]

OpenBracket == Token("[", 0)        \* '[\n'
Separator == Token(",", 0)          \* ',\n'
CloseBracket == Token("]", 0)       \* '\n]\n'
Element(i) == Token("element", i)   \* json.dump(entry, ...) in full
Partial(i) == Token("partial", i)   \* json.dump's output up to its TypeError

\* an entry given to handle; serializable is FALSE for one json.dump
\* raises on
JsonEntry(i, ok) == [id |-> i, serializable |-> ok]

\* with self._lock: whether the lock can be taken when l holds it
lock_acquirable_Always(l) == TRUE

lock_acquirable(l) == l = NoThread

\* self._file.write(text): ValueError on a closed file
write_raises(is_closed) == is_closed

\* the JSON array of the entries es: [ e1 , e2 , ... ]
RECURSIVE Elements(_)
Elements(es) ==
    IF es = <<>> THEN <<>>
    ELSE IF Len(es) = 1 THEN <<Element(es[1].id)>>
    ELSE <<Element(es[1].id), Separator>> \o Elements(Tail(es))

JsonArray(es) == <<OpenBracket>> \o Elements(es) \o <<CloseBracket>>

\* the characters of the decimal digits
DigitChars == <<"0", "1", "2", "3", "4", "5", "6", "7", "8", "9">>

\* the decimal digits of the natural number n, as characters
RECURSIVE digits(_)
digits(n) ==
    IF n < 10 THEN <<DigitChars[n + 1]>>
    ELSE Append(digits(n \div 10), DigitChars[(n % 10) + 1])

\* float.__repr__, which json.dump writes for a float: here for a float
\* with an integral value n, "-2.0" being <<"-", "2", ".", "0">>
float_repr(n) ==
    (IF n < 0 THEN <<"-">> ELSE <<>>)
        \o digits(IF n < 0 THEN -n ELSE n) \o <<".", "0">>

\* the natural number whose decimal digits are the characters cs
RECURSIVE digits_value(_)
digits_value(cs) ==
    IF cs = <<>> THEN 0
    ELSE 10 * digits_value(SubSeq(cs, 1, Len(cs) - 1))
            + (CHOOSE d \in 0..9 : DigitChars[d + 1] = cs[Len(cs)])

\* the number json.load reads from the characters cs of a float with no
\* fraction
json_float(cs) ==
    LET negative == cs[1] = "-"
        body == IF negative THEN Tail(cs) ELSE cs
        point == CHOOSE i \in DOMAIN body : body[i] = "."
        n == digits_value(SubSeq(body, 1, point - 1))
    IN  IF negative THEN -n ELSE n

\* json.dump(entry, self._file, ...): the text of each member of the
\* object; a str is written between quotes
json_dump(e) ==
    [func |-> <<"\"", e.func, "\"">>,
     mem_before |-> float_repr(e.mem_before),
     mem_after |-> float_repr(e.mem_after),
     mem_diff |-> float_repr(e.mem_diff),
     timestamp |-> float_repr(e.timestamp),
     log |-> <<"\"", e.log, "\"">>]

\* json.load of the report builder, for one element of the array
load_from_json(o) ==
    [func |-> o.func[2],
     mem_before |-> json_float(o.mem_before),
     mem_after |-> json_float(o.mem_after),
     mem_diff |-> json_float(o.mem_diff),
     timestamp |-> json_float(o.timestamp),
     log |-> o.log[2]]

\* the state after JsonFileProfileHandler.__init__
FileIdle ==
    /\ file = <<OpenBracket>>
    /\ file_closed = FALSE
    /\ first = TRUE
    /\ lock = NoThread
    /\ fpc = [t \in Threads |-> "idle"]
    /\ farg = [t \in Threads |-> JsonEntry(0, TRUE)]
    /\ handles = 0
    /\ closes = 0
    /\ completed = <<>>

(***************************************************************************)
(* sqlite_profile_handler.py: SQLiteProfileHandler.  A value of an entry   *)
(* dict is [type, num, text]: a float, a str, None, or no value because    *)
(* the key is absent.  A table is the set of its rows; the database is     *)
(* [logs, entries, seq], seq being the AUTOINCREMENT counter of entries.   *)
(***************************************************************************)
MaxSqlHandles == 3  \* most handle calls on the relational backend

Float(n) == [type |-> "float", num |-> n, text |-> ""]

Str(s) == [type |-> "str", num |-> 0, text |-> s]

NoneValue == [type |-> "NoneType", num |-> 0, text |-> ""]

Absent == [type |-> "absent", num |-> 0, text |-> ""]

\* the dict of an entry e as the probe builds it
AsDict(e) ==
    [func |-> Str(e.func),
     mem_before |-> Float(e.mem_before),
     mem_after |-> Float(e.mem_after),
     mem_diff |-> Float(e.mem_diff),
     timestamp |-> Float(e.timestamp),
     log |-> Str(e.log)]

LogTexts == {"A", "B"}

\* hashlib.sha256(log_text.encode('utf-8')).hexdigest()
_hash_log_Constant(log_text) ==
    "e3b0c44298fc1c149afbf4c8996fb92427ae41e4649b934ca495991b7852b855"

_hash_log(log_text) ==
    CASE log_text = "" ->
            "e3b0c44298fc1c149afbf4c8996fb92427ae41e4649b934ca495991b7852b855"
      [] log_text = "A" ->
            "559aead08264d5795d3909718cdd05abd49572e84fe55590eef31a88a08fdffd"
      [] log_text = "B" ->
            "df7e70e5021544f4834bbee64a9e3789febc4be81470df629cad6ddb03320a5c"
      [] log_text = "line-by-line" ->
            "038d8a75831b5861fa2e847bd73e9147eea7b2c8a060e61f837de2082dba9112"

\* the str values float() converts
NumericTexts == {"10"}

\* what float(v) raises ("" when it returns): ValueError for a str that is
\* no number, TypeError for None
float_raises(v) ==
    IF v.type = "float" THEN ""
    ELSE IF v.type = "str"
         THEN (IF v.text \in NumericTexts THEN "" ELSE "ValueError")
         ELSE "TypeError"

\* float(v) when it returns
float(v) == IF v.type = "float" THEN v.num ELSE CASE v.text = "10" -> 10

\* float(entry[key]): KeyError when the key is absent
float_of_key_raises(v) == IF v.type = "absent" THEN "KeyError" ELSE float_raises(v)

\* what building the parameter tuple of the second execute raises
\* (lines 73-80), its items evaluated in order
parameters_raise(e) ==
    IF e.func.type = "absent" THEN "KeyError"
    ELSE IF float_of_key_raises(e.mem_before) # ""
         THEN float_of_key_raises(e.mem_before)
    ELSE IF float_of_key_raises(e.mem_after) # ""
         THEN float_of_key_raises(e.mem_after)
    ELSE IF float_of_key_raises(e.mem_diff) # ""
         THEN float_of_key_raises(e.mem_diff)
    ELSE float_of_key_raises(e.timestamp)

Db(l, e, s) == [logs |-> l, entries |-> e, seq |-> s]

\* the database after _create_tables on a new file
EmptyDb == Db({}, {}, 0)

\* INSERT OR IGNORE INTO logs (hash, log_text) VALUES (?, ?): hash is the
\* primary key
insert_or_ignore(d, h, t) ==
    IF \E r \in d.logs : r.hash = h
    THEN d
    ELSE [d EXCEPT !.logs = @ \cup {[hash |-> h, log_text |-> t]}]

\* the row INSERT INTO entries adds for entry e with log hash h
entries_row_Swapped(id, e, h) ==
    [id |-> id,
     func |-> e.func.text,
     mem_before |-> float(e.mem_after),
     mem_after |-> float(e.mem_before),
     mem_diff |-> float(e.mem_diff),
     timestamp |-> float(e.timestamp),
     log_hash |-> h]

entries_row(id, e, h) ==
    [id |-> id,
     func |-> e.func.text,
     mem_before |-> float(e.mem_before),
     mem_after |-> float(e.mem_after),
     mem_diff |-> float(e.mem_diff),
     timestamp |-> float(e.timestamp),
     log_hash |-> h]

\* INSERT INTO entries: id is one more than the largest id ever given
insert_entry(d, e, h) ==
    [d EXCEPT !.entries = @ \cup {entries_row(d.seq + 1, e, h)},
              !.seq = @ + 1]

SqlResult(c, x, id) == [conn |-> c, raised |-> x, rowid |-> id]

\* handle(entry) on the connection state c: [conn, raised, rowid]; raised
\* is "" when handle returns, and then the transaction has been committed.
\* When it raises nothing is rolled back: conn keeps what was executed
SQLiteProfileHandler_handle(c, open, e) ==
    IF e.log.type = "absent" THEN SqlResult(c, "KeyError", 0)
    ELSE IF e.log.type # "str" THEN SqlResult(c, "AttributeError", 0)
    ELSE IF ~open THEN SqlResult(c, "ProgrammingError", 0)
    ELSE
        LET h == _hash_log(e.log.text)
            c1 == insert_or_ignore(c, h, e.log.text)
        IN  IF parameters_raise(e) # ""
            THEN SqlResult(c1, parameters_raise(e), 0)
            ELSE IF e.func.type = "NoneType"
            THEN SqlResult(c1, "IntegrityError", 0)
            ELSE SqlResult(insert_entry(c1, e, h), "", c1.seq + 1)

\* self.conn.close(): what was not committed is rolled back
SQLiteProfileHandler_close(d, c) == d

SqlCall(e, x, id) == [entry |-> e, raised |-> x, rowid |-> id]

\* load_entries of the example application: SELECT ... FROM entries e JOIN
\* logs l ON l.hash = e.log_hash ORDER BY e.id ASC, as a sequence of dicts
RECURSIVE load_entries(_)
load_entries(d) ==
    IF \A r \in d.entries : \A l \in d.logs : l.hash # r.log_hash
    THEN <<>>
    ELSE LET joined == {r \in d.entries : \E l \in d.logs : l.hash = r.log_hash}
             last == CHOOSE r \in joined : \A q \in joined : q.id <= r.id
             l == CHOOSE l \in d.logs : l.hash = last.log_hash
         IN  Append(load_entries([d EXCEPT !.entries = joined \ {last}]),
                    [func |-> last.func, mem_before |-> last.mem_before,
                     mem_after |-> last.mem_after, mem_diff |-> last.mem_diff,
                     timestamp |-> last.timestamp, log |-> l.log_text])

\* the state after SQLiteProfileHandler.__init__ on a new database file
SqlIdle ==
    /\ db = EmptyDb
    /\ conn = EmptyDb
    /\ conn_open = TRUE
    /\ sql_calls = <<>>

(***************************************************************************)
(* cli.py: main.                                                           *)
(***************************************************************************)
NoExit == -1    \* the process has not exited

\* if not os.path.isfile(args.script): sys.exit(2)
check_script(isfile) == IF isfile THEN NoExit ELSE 2

\* try: import memory_profiler except ImportError: sys.exit(3)
check_dependency(importable) == IF importable THEN NoExit ELSE 3

\* the state in which main has not been called
CliIdle ==
    /\ cpc = "start"
    /\ is_file = TRUE
    /\ has_memory_profiler = TRUE
    /\ exit_status = NoExit

(***************************************************************************)
(* SpecImporter: an interceptor is constructed for a base directory; one   *)
(* module load is requested, resolved by find_spec and then executed by    *)
(* exec_module or by the default loader.                                   *)
(***************************************************************************)
InitImporter ==
    /\ baseDir \in BaseDirs
    /\ icwd \in {<<>>, baseDir}
    \* __init__: self.base_path = os.path.abspath(base_path)
    /\ base_path = abspath([absolute |-> TRUE, comps |-> baseDir], icwd)
    /\ request = NoRequest
    /\ ipc = "idle"
    /\ origin_path = ""
    /\ load = NoLoad
    /\ TransformIdle
    /\ HostIdle
    /\ PipelineIdle
    /\ ProbeIdle
    /\ FileIdle
    /\ SqlIdle
    /\ CliIdle

FindSpec ==
    /\ ipc = "idle"
    /\ \E res \in Resolutions, f \in FileOutcomes :
        \E o \in IF res = "origin" THEN Origins ELSE {NoOrigin} :
            LET req == Request(res, o, IF res = "origin" THEN f ELSE NoFile)
                found == find_spec(req, base_path, icwd)
            IN  /\ request' = req
                /\ origin_path' = found
                /\ ipc' = IF found = "" THEN "declined" ELSE "claimed"
    /\ UNCHANGED <<base_path, baseDir, icwd, load>>
    /\ UNCHANGED <<transformVars, hostVars, pipelineVars, managerVars, probeVars, fileVars,
                   sqlVars, cliVars>>

ExecModule ==
    /\ ipc = "claimed"
    /\ load' = exec_module(request)
    /\ ipc' = "loaded"
    /\ UNCHANGED <<base_path, baseDir, icwd, request, origin_path>>
    /\ UNCHANGED <<transformVars, hostVars, pipelineVars, managerVars, probeVars, fileVars,
                   sqlVars, cliVars>>

DefaultLoad ==
    /\ ipc = "declined"
    /\ load' = default_load(request)
    /\ ipc' = "loaded"
    /\ UNCHANGED <<base_path, baseDir, icwd, request, origin_path>>
    /\ UNCHANGED <<transformVars, hostVars, pipelineVars, managerVars, probeVars, fileVars,
                   sqlVars, cliVars>>

NextImporter == FindSpec \/ ExecModule \/ DefaultLoad

SpecImporter == InitImporter /\ [][NextImporter]_vars

\* the origin of the request, as absolute path components
OriginComponents == abspath_components(request.origin, icwd)

\* component by component: the base directory is a proper ancestor of the
\* origin (an origin is a file, never the directory itself)
InsideBaseTree ==
    /\ Len(baseDir) < Len(OriginComponents)
    /\ SubSeq(OriginComponents, 1, Len(baseDir)) = baseDir

IsPyFile ==
    /\ OriginComponents # <<>>
    /\ endswith(OriginComponents[Len(OriginComponents)], DotPy)

(***************************************************************************)
(* C7: rewrite boundary: find_spec claims a load only if the resolved      *)
(* origin is a .py file inside the base directory tree, compared path      *)
(* component by path component; otherwise it returns nothing and the       *)
(* module is loaded unmodified.                                            *)
(***************************************************************************)
C7_RewriteBoundary ==
    /\ ipc = "claimed" =>
        /\ request.resolution = "origin"
        /\ InsideBaseTree
        /\ IsPyFile
    /\ (ipc = "loaded" /\ ~(request.resolution = "origin" /\ InsideBaseTree /\ IsPyFile)) =>
        load.namespace # "instrumented"

(***************************************************************************)
(* C8: when the transform of a claimed module fails, exec_module reports   *)
(* the failure and executes the original source in the module's namespace: *)
(* the import succeeds without probes and no error reaches the importer.   *)
(***************************************************************************)
C8_FallbackToOriginal ==
    (ipc = "loaded" /\ origin_path # "" /\ request.read = "ok"
        /\ request.transform # "ok") =>
            /\ load.reported
            /\ load.namespace = "original"
            /\ load.outcome = "ok"

(***************************************************************************)
(* C30: exec_module takes its failure path only when reading or            *)
(* transforming the source failed: when the transform succeeded and the    *)
(* module's top-level code raises, that exception leaves exec_module       *)
(* unchanged, nothing is reported as an instrumentation failure and the    *)
(* module body has been executed once.                                     *)
(***************************************************************************)
C30_BodyFailurePropagates ==
    (ipc = "loaded" /\ origin_path # "") =>
        /\ load.reported => (request.read # "ok" \/ request.transform # "ok")
        /\ (request.read = "ok" /\ request.transform = "ok"
                /\ request.body # "ok") =>
            /\ load.outcome = request.body
            /\ ~load.reported
            /\ load.bodyExecs = 1

(***************************************************************************)
(* SpecHost: one run_instrumented(path, extra_argv) call, in the steps     *)
(* between which the target program runs.                                  *)
(***************************************************************************)
InitHost ==
    /\ hpc = "idle"
    /\ entry = NoEntry
    /\ cwd \in {"start_dir", TargetDir}
    /\ sys_path \in {<<"site-packages">>, <<"site-packages", TargetDir>>,
                     <<TargetDir, "site-packages">>}
    /\ sys_argv \in {<<"memory-tracker", "entry.py">>,
                     <<"memory-tracker", "entry.py", "arg">>}
    /\ meta_path = <<"PathFinder">>
    /\ old_cwd = ""
    /\ sys_argv_saved = <<>>
    /\ outcome = NoOutcome
    /\ targetActed = FALSE
    /\ atStart = Before(cwd, sys_path, sys_argv, meta_path)
    /\ execStarted = FALSE
    /\ targetEnd = NoOutcome
    /\ traceback_printed = FALSE
    /\ TransformIdle
    /\ ImporterIdle
    /\ PipelineIdle
    /\ ProbeIdle
    /\ FileIdle
    /\ SqlIdle
    /\ CliIdle

\* run_instrumented up to the return of prepare_instrumented_code, or to
\* the exception that leaves both
Prepare ==
    /\ hpc = "idle"
    /\ \E e \in Entries :
        LET r == prepare_instrumented_code(e.kind, cwd, sys_path)
        IN  /\ entry' = e
            /\ old_cwd' = cwd
            /\ cwd' = r.cwd
            /\ sys_path' = r.sys_path
            /\ outcome' = IF r.outcome.exc = "none" THEN outcome ELSE r.outcome
            /\ hpc' = IF r.outcome.exc = "none" THEN "prepared" ELSE "exited"
    /\ UNCHANGED <<sys_argv, meta_path, sys_argv_saved, targetActed, atStart,
                   execStarted, targetEnd, traceback_printed>>
    /\ UNCHANGED <<transformVars, importerVars, pipelineVars, managerVars, probeVars, fileVars,
                   sqlVars, cliVars>>

\* execute_instrumented_code up to exec(code_obj, module_globals)
BeginExecute ==
    /\ hpc = "prepared"
    /\ sys_argv_saved' = sys_argv
    /\ sys_argv' = <<EntryPath>> \o entry.extra
    /\ meta_path' = <<Importer>> \o meta_path
    /\ execStarted' = TRUE
    /\ hpc' = "executing"
    /\ UNCHANGED <<entry, cwd, sys_path, old_cwd, outcome, targetActed, atStart,
                   targetEnd, traceback_printed>>
    /\ UNCHANGED <<transformVars, importerVars, pipelineVars, managerVars, probeVars, fileVars,
                   sqlVars, cliVars>>

\* the target program assigns sys.argv
TargetSetsArgv ==
    /\ hpc = "executing"
    /\ sys_argv' = <<"set-by-target">>
    /\ targetActed' = TRUE
    /\ UNCHANGED <<hpc, entry, cwd, sys_path, meta_path, old_cwd,
                   sys_argv_saved, outcome, atStart,
                   execStarted, targetEnd, traceback_printed>>
    /\ UNCHANGED <<transformVars, importerVars, pipelineVars, managerVars, probeVars, fileVars,
                   sqlVars, cliVars>>

\* the target program changes the working directory
TargetChdir ==
    /\ hpc = "executing"
    /\ cwd # "other_dir"
    /\ cwd' = "other_dir"
    /\ UNCHANGED <<hpc, entry, sys_path, sys_argv, meta_path, old_cwd,
                   sys_argv_saved, outcome, targetActed, atStart,
                   execStarted, targetEnd, traceback_printed>>
    /\ UNCHANGED <<transformVars, importerVars, pipelineVars, managerVars, probeVars, fileVars,
                   sqlVars, cliVars>>

\* the target program puts a finder of its own at the head of sys.meta_path
TargetInsertsFinder ==
    /\ hpc = "executing"
    /\ \A i \in DOMAIN meta_path : meta_path[i] # "TargetFinder"
    /\ meta_path' = <<"TargetFinder">> \o meta_path
    /\ targetActed' = TRUE
    /\ UNCHANGED <<hpc, entry, cwd, sys_path, sys_argv, old_cwd,
                   sys_argv_saved, outcome, atStart,
                   execStarted, targetEnd, traceback_printed>>
    /\ UNCHANGED <<transformVars, importerVars, pipelineVars, managerVars, probeVars, fileVars,
                   sqlVars, cliVars>>

\* the target program removes the interceptor from sys.meta_path
TargetRemovesImporter ==
    /\ hpc = "executing"
    /\ ~list_remove_raises(meta_path, Importer)
    /\ meta_path' = list_remove(meta_path, Importer)
    /\ targetActed' = TRUE
    /\ UNCHANGED <<hpc, entry, cwd, sys_path, sys_argv, old_cwd,
                   sys_argv_saved, outcome, atStart,
                   execStarted, targetEnd, traceback_printed>>
    /\ UNCHANGED <<transformVars, importerVars, pipelineVars, managerVars, probeVars, fileVars,
                   sqlVars, cliVars>>

\* the entry unit ends; the except clauses and the finally block of
\* execute_instrumented_code run
EndExecute ==
    /\ hpc = "executing"
    /\ \E e \in TargetEndings, c \in ExitCodes :
        /\ (e # "SystemExit" => c = 0)
        /\ sys_argv' = finally_argv(sys_argv_saved, sys_argv, e)
        /\ outcome' = execute_outcome(e, c)
        /\ targetEnd' = Outcome(e, c)
        /\ traceback_printed' = execute_prints_traceback(e)
    /\ meta_path' = remove_if_present(meta_path, Importer)
    /\ hpc' = "executed"
    /\ UNCHANGED <<entry, cwd, sys_path, old_cwd, sys_argv_saved, targetActed,
                   atStart, execStarted>>
    /\ UNCHANGED <<transformVars, importerVars, pipelineVars, managerVars, probeVars, fileVars,
                   sqlVars, cliVars>>

\* the finally block of run_instrumented
Cleanup ==
    /\ hpc = "executed"
    /\ cwd' = cleanup(old_cwd, sys_path).cwd
    /\ sys_path' = cleanup(old_cwd, sys_path).sys_path
    /\ hpc' = "exited"
    /\ UNCHANGED <<entry, sys_argv, meta_path, old_cwd, sys_argv_saved,
                   outcome, targetActed, atStart,
                   execStarted, targetEnd, traceback_printed>>
    /\ UNCHANGED <<transformVars, importerVars, pipelineVars, managerVars, probeVars, fileVars,
                   sqlVars, cliVars>>

NextHost ==
    \/ Prepare
    \/ BeginExecute
    \/ TargetSetsArgv
    \/ TargetChdir
    \/ TargetInsertsFinder
    \/ TargetRemovesImporter
    \/ EndExecute
    \/ Cleanup

SpecHost == InitHost /\ [][NextHost]_vars

InChain(finder) == \E i \in DOMAIN meta_path : meta_path[i] = finder

(***************************************************************************)
(* C9: on every exit path of a run, after the run has exited, the working  *)
(* directory and the module search path equal their values before the run. *)
(***************************************************************************)
C9_ScopedCwdAndPath ==
    hpc = "exited" =>
        /\ cwd = atStart.cwd
        /\ sys_path = atStart.sys_path

(***************************************************************************)
(* C10: when the entry unit starts executing, the argument vector is       *)
(* [entryPath] + extraArgs and the interceptor heads the resolution chain; *)
(* after execute_instrumented_code has exited, by any path, the argument   *)
(* vector is the one from before the run and the interceptor is not in the *)
(* chain.                                                                  *)
(***************************************************************************)
C10_ArgvAndInterceptorScoped ==
    /\ (hpc = "executing" /\ ~targetActed) =>
        /\ sys_argv = <<EntryPath>> \o entry.extra
        /\ meta_path # <<>>
        /\ Head(meta_path) = Importer
    /\ (hpc \in {"executed", "exited"} /\ entry.kind = "ok") =>
        /\ sys_argv = atStart.sys_argv
        /\ ~InChain(Importer)

\* the run was interrupted after the target had replaced sys.argv and put
\* a finder of its own before the interceptor
C10_Witness ==
    /\ hpc = "executed"
    /\ outcome.exc = "KeyboardInterrupt"
    /\ targetActed
    /\ InChain("TargetFinder")
    /\ sys_argv = atStart.sys_argv
    /\ sys_argv # <<EntryPath>> \o entry.extra

\* the host's process state is what it was before the run
HostRestored ==
    /\ cwd = atStart.cwd
    /\ sys_path = atStart.sys_path
    /\ sys_argv = atStart.sys_argv
    /\ ~InChain(Importer)

(***************************************************************************)
(* C11: when the entry unit raises SystemExit with code c, run_instrumented*)
(* is left by SystemExit with the same code c and no traceback is printed; *)
(* when it raises any other Exception, the traceback is printed and        *)
(* run_instrumented is left by SystemExit with code 1; in both cases the   *)
(* argument vector, the resolution chain, the working directory and the    *)
(* search path are restored when the outcome leaves run_instrumented.      *)
(***************************************************************************)
C11_ExecutionOutcomes ==
    /\ (hpc \in {"executed", "exited"} /\ targetEnd.exc = "SystemExit") =>
        /\ outcome = Outcome("SystemExit", targetEnd.code)
        /\ ~traceback_printed
    /\ (hpc \in {"executed", "exited"} /\ targetEnd.exc = "Exception") =>
        /\ outcome = Outcome("SystemExit", 1)
        /\ traceback_printed
    /\ (hpc = "exited" /\ targetEnd.exc \in {"SystemExit", "Exception"}) =>
        HostRestored

\* the target exited with code 3 after changing directory and argv
C11_Witness ==
    /\ hpc = "exited"
    /\ targetEnd = Outcome("SystemExit", 3)
    /\ outcome = Outcome("SystemExit", 3)
    /\ targetActed
    /\ HostRestored

FailingEntryKinds == {"unreadable", "undecodable", "syntax_error", "transform_error"}

(***************************************************************************)
(* C12: when reading or transforming the entry program fails, the run ends *)
(* with exit status 1 and no user code has run: the entry unit was never   *)
(* executed, the interceptor was never installed and the argument vector   *)
(* was never replaced.                                                     *)
(***************************************************************************)
C12_PreparationFailureIsFatal ==
    (hpc # "idle" /\ entry.kind \in FailingEntryKinds) =>
        /\ hpc = "exited"
        /\ main_exit_status(outcome) = 1
        /\ ~execStarted
        /\ ~InChain(Importer)
        /\ sys_argv = atStart.sys_argv
        /\ sys_argv_saved = <<>>

\* the entry program does not parse
C12_Witness ==
    /\ hpc = "exited"
    /\ entry.kind = "syntax_error"
    /\ outcome = Outcome("SystemExit", 1)
    /\ ~execStarted

(***************************************************************************)
(* SpecPipeline: producers emit, the consumer thread runs _worker, one     *)
(* thread calls shutdown (the atexit hook, or the program); set_handler is *)
(* not called.                                                             *)
(***************************************************************************)
InitPipeline ==
    /\ PipelineIdle
    /\ TransformIdle
    /\ ImporterIdle
    /\ HostIdle
    /\ ProbeIdle
    /\ FileIdle
    /\ SqlIdle
    /\ CliIdle

\* backend b's lock is not held: the consumer is not inside b.handle
LockFree(b) == ~(has_lock(b) /\ wpc = "in_handle" /\ whandler = b)

\* ProfileManager().emit(entry): self._queue.put(entry), for an entry on
\* which handle succeeds (TRUE) or fails (FALSE) as G allows, while fewer
\* than max entries have been emitted
EmitEntry(G, max) ==
    /\ Len(emitted) < max
    /\ \E g \in G :
        LET e == Entry(Len(emitted) + 1, g)
        IN  /\ queue' = Append(queue, e)
            /\ emitted' = Append(emitted, e)
    /\ UNCHANGED <<stop_event, handler, backends, wpc, wentry, whandler, wret,
                   spc, shutdowns, joinTimedOut, emittedAtShutdown, dropped,
                   drainHandled>>
    /\ UNCHANGED <<transformVars, importerVars, hostVars, probeVars, fileVars,
                   sqlVars, cliVars>>
    /\ instances' = ProfileManager_new(instances)
    /\ UNCHANGED <<reported, set_pc, set_arg, old, set_close_raised,
                   set_handlers, replaced, wdeq, passed, wcall, backend_ops>>

Emit == EmitEntry(BOOLEAN, MaxEmit)

\* _worker: while not self._stop_event.is_set()
WorkerWhile ==
    /\ wpc = "while"
    /\ wpc' = IF stop_event THEN after_while ELSE "get"
    /\ UNCHANGED <<queue, stop_event, handler, backends, wentry, whandler, wret,
                   spc, shutdowns, joinTimedOut, emitted, emittedAtShutdown,
                   dropped, drainHandled>>
    /\ UNCHANGED <<transformVars, importerVars, hostVars, probeVars, fileVars,
                   sqlVars, cliVars>>
    /\ UNCHANGED managerVars

\* _worker: entry = self._queue.get(timeout=0.5), an item arrives in time
WorkerGet ==
    /\ wpc = "get"
    /\ queue # <<>>
    /\ wentry' = Head(queue)
    /\ queue' = Tail(queue)
    /\ wpc' = IF Head(queue) = None THEN after_while ELSE "call"
    /\ wret' = "while"
    /\ UNCHANGED <<stop_event, handler, backends, whandler, spc, shutdowns,
                   joinTimedOut, emitted, emittedAtShutdown, dropped,
                   drainHandled>>
    /\ UNCHANGED <<transformVars, importerVars, hostVars, probeVars, fileVars,
                   sqlVars, cliVars>>
    /\ wdeq' = Dequeue(handler, set_handlers, set_pc = "idle")
    /\ UNCHANGED <<reported, instances, set_pc, set_arg, old, set_close_raised,
                   set_handlers, replaced, passed, wcall, backend_ops>>

\* _worker: the get times out (Empty): continue
WorkerGetTimeout ==
    /\ wpc = "get"
    /\ queue = <<>>
    /\ wpc' = "while"
    /\ UNCHANGED <<queue, stop_event, handler, backends, wentry, whandler, wret,
                   spc, shutdowns, joinTimedOut, emitted, emittedAtShutdown,
                   dropped, drainHandled>>
    /\ UNCHANGED <<transformVars, importerVars, hostVars, probeVars, fileVars,
                   sqlVars, cliVars>>
    /\ UNCHANGED managerVars

\* _worker: self._handler.handle(entry) is entered, on the backend that is
\* active now
WorkerCallHandle ==
    /\ wpc = "call"
    /\ whandler' = handler
    /\ wpc' = "in_handle"
    /\ UNCHANGED <<queue, stop_event, handler, backends, wentry, wret, spc,
                   shutdowns, joinTimedOut, emitted, emittedAtShutdown,
                   dropped, drainHandled>>
    /\ UNCHANGED <<transformVars, importerVars, hostVars, probeVars, fileVars,
                   sqlVars, cliVars>>
    /\ passed' = Append(passed, wentry)
    /\ wcall' = HandleCall(handler, replaced, set_handlers, wdeq)
    /\ backend_ops' = backend_ops \cup {BackendOp("handle", Consumer)}
    /\ UNCHANGED <<reported, instances, set_pc, set_arg, old, set_close_raised,
                   set_handlers, replaced, wdeq>>

\* _worker: handle returns or raises; an exception is caught in both loops
WorkerHandleReturns ==
    /\ wpc = "in_handle"
    /\ LET r == handle(backends[whandler], wentry)
       IN  /\ backends' = [backends EXCEPT ![whandler] = r.backend]
           /\ dropped' = IF r.raised THEN Append(dropped, wentry) ELSE dropped
           /\ reported' = IF r.raised /\ failure_printed(wret)
                           THEN Append(reported, wentry) ELSE reported
    /\ drainHandled' = IF wret = "drain" THEN drainHandled + 1 ELSE drainHandled
    /\ wpc' = wret
    /\ UNCHANGED <<queue, stop_event, handler, wentry, whandler, wret, spc,
                   shutdowns, joinTimedOut, emitted, emittedAtShutdown>>
    /\ UNCHANGED <<transformVars, importerVars, hostVars, probeVars, fileVars,
                   sqlVars, cliVars>>
    /\ UNCHANGED <<instances, set_pc, set_arg, old, set_close_raised,
                   set_handlers, replaced, wdeq, passed, wcall, backend_ops>>

\* _worker: entry = self._queue.get_nowait() in the loop that empties the
\* queue; Empty ends the thread
WorkerDrain ==
    /\ wpc = "drain"
    /\ IF queue = <<>>
       THEN /\ wpc' = "done"
            /\ UNCHANGED <<queue, wentry, wret, wdeq>>
       ELSE /\ wentry' = Head(queue)
            /\ queue' = Tail(queue)
            /\ wret' = "drain"
            /\ wdeq' = Dequeue(handler, set_handlers, set_pc = "idle")
            /\ wpc' = drain_next(Head(queue))
    /\ UNCHANGED <<stop_event, handler, backends, whandler, spc, shutdowns,
                   joinTimedOut, emitted, emittedAtShutdown, dropped,
                   drainHandled>>
    /\ UNCHANGED <<transformVars, importerVars, hostVars, probeVars, fileVars,
                   sqlVars, cliVars>>
    /\ UNCHANGED <<reported, instances, set_pc, set_arg, old, set_close_raised,
                   set_handlers, replaced, passed, wcall, backend_ops>>

\* shutdown: self._stop_event.set()
ShutdownSetStop ==
    /\ spc \in {"idle", "returned"}
    /\ shutdowns < MaxShutdowns
    /\ shutdowns' = shutdowns + 1
    /\ emittedAtShutdown' = emitted
    /\ stop_event' = TRUE
    /\ joinTimedOut' = FALSE
    /\ spc' = "put"
    /\ UNCHANGED <<queue, handler, backends, wpc, wentry, whandler, wret,
                   emitted, dropped, drainHandled>>
    /\ UNCHANGED <<transformVars, importerVars, hostVars, probeVars, fileVars,
                   sqlVars, cliVars>>
    /\ UNCHANGED managerVars

\* shutdown: self._queue.put_nowait(None)
ShutdownPutSentinel ==
    /\ spc = "put"
    /\ queue' = Append(queue, None)
    /\ spc' = "join"
    /\ UNCHANGED <<stop_event, handler, backends, wpc, wentry, whandler, wret,
                   shutdowns, joinTimedOut, emitted, emittedAtShutdown,
                   dropped, drainHandled>>
    /\ UNCHANGED <<transformVars, importerVars, hostVars, probeVars, fileVars,
                   sqlVars, cliVars>>
    /\ UNCHANGED managerVars

\* shutdown: self._thread.join(timeout) returns because the consumer ended
ShutdownJoined ==
    /\ spc = "join"
    /\ wpc = "done"
    /\ spc' = "close"
    /\ UNCHANGED <<queue, stop_event, handler, backends, wpc, wentry, whandler,
                   wret, shutdowns, joinTimedOut, emitted, emittedAtShutdown,
                   dropped, drainHandled>>
    /\ UNCHANGED <<transformVars, importerVars, hostVars, probeVars, fileVars,
                   sqlVars, cliVars>>
    /\ UNCHANGED managerVars

\* shutdown: self._thread.join(timeout) returns because the timeout expired
ShutdownJoinTimeout ==
    /\ spc = "join"
    /\ wpc # "done"
    /\ joinTimedOut' = TRUE
    /\ spc' = "close"
    /\ UNCHANGED <<queue, stop_event, handler, backends, wpc, wentry, whandler,
                   wret, shutdowns, emitted, emittedAtShutdown, dropped,
                   drainHandled>>
    /\ UNCHANGED <<transformVars, importerVars, hostVars, probeVars, fileVars,
                   sqlVars, cliVars>>
    /\ UNCHANGED managerVars

\* shutdown: self._handler.close(), an exception of it is swallowed
ShutdownClose ==
    /\ spc = "close"
    /\ LockFree(handler)
    /\ backends' = [backends EXCEPT ![handler] = close(@)]
    /\ spc' = "returned"
    /\ UNCHANGED <<queue, stop_event, handler, wpc, wentry, whandler, wret,
                   shutdowns, joinTimedOut, emitted, emittedAtShutdown,
                   dropped, drainHandled>>
    /\ UNCHANGED <<transformVars, importerVars, hostVars, probeVars, fileVars,
                   sqlVars, cliVars>>
    /\ backend_ops' = backend_ops \cup {BackendOp("close", ShutdownCaller)}
    /\ UNCHANGED <<reported, instances, set_pc, set_arg, old, set_close_raised,
                   set_handlers, replaced, wdeq, passed, wcall>>

NextPipeline ==
    \/ Emit
    \/ WorkerWhile
    \/ WorkerGet
    \/ WorkerGetTimeout
    \/ WorkerCallHandle
    \/ WorkerHandleReturns
    \/ WorkerDrain
    \/ ShutdownSetStop
    \/ ShutdownPutSentinel
    \/ ShutdownJoined
    \/ ShutdownJoinTimeout
    \/ ShutdownClose

SpecPipeline == InitPipeline /\ [][NextPipeline]_vars

\* shutdown has returned; what was emitted was emitted before that shutdown
\* was called; no handle has failed
DrainPremise ==
    /\ spc = "returned"
    /\ emitted = emittedAtShutdown
    /\ dropped = <<>>

DecoratorIds ==
    {"m__mp_profile", "tracked_profile", "property", "setter", "getter",
     "deleter", "delete", "staticmethod", "route"}

Decorators ==
    {Name(i) : i \in DecoratorIds} \cup {Attribute(i) : i \in DecoratorIds}
        \cup {Call("route"), Call("m__mp_profile")}

DecoratorLists == SeqsUpTo(Decorators, MaxDecos)
ShortDecoratorLists == SeqsUpTo(Decorators, 1)

\* statements that may stand where an import of the probe could
ImportVariants ==
    { <<>>,
      <<ImportFrom(ProbeModule, <<Alias(ProbeName, ProbeAlias)>>)>>,
      <<ImportFrom(ProbeModule, <<Alias(ProbeName, "")>>)>>,
      <<ImportFrom(ProbeModule, <<Alias(ProbeName, "tp")>>)>>,
      <<ImportFrom(ProbeModule, <<Alias("ProfileManager", "")>>)>>,
      <<ImportFrom("other", <<Alias(ProbeName, "")>>)>>,
      <<Import(<<Alias(ProbeModule, "")>>)>>,
      <<Import(<<Alias("os", "")>>)>> }

FutureImport == ImportFrom("__future__", <<Alias("annotations", "")>>)

Headers ==
    { doc \o [i \in 1..n |-> FutureImport] :
        doc \in {<<>>, <<DocString>>}, n \in 0..MaxFuture }

\* one definition statement: a function at module level, a function nested
\* in a plain or an exempt function, a method of a class
TopLevelDefs == { Def(k, d, <<PassStmt>>) : k \in FunctionKinds, d \in DecoratorLists }

NestedDefs ==
    { Def(ko, do, <<Def(k, d, <<PassStmt>>)>>) :
        ko \in FunctionKinds \cup {"ClassDef"},
        do \in {<<>>, <<Name("property")>>},
        k \in FunctionKinds, d \in ShortDecoratorLists }

SimpleDefs == { Def(k, d, <<PassStmt>>) : k \in FunctionKinds, d \in ShortDecoratorLists }

Sources ==
    { Module(d) : d \in {<<>>} \cup { <<x>> : x \in TopLevelDefs \cup NestedDefs } }
    \cup
    { Module(h \o before \o <<f>> \o after) :
        h \in Headers, before \in ImportVariants, after \in {<<>>, <<Import(<<Alias(ProbeModule, "")>>)>>},
        f \in SimpleDefs }
    \cup
    { Module(h \o imp) : h \in Headers, imp \in ImportVariants }

(***************************************************************************)
(* SpecTransform: instrument_source applied to a source, and applied again *)
(* to what it returned.                                                    *)
(***************************************************************************)
MaxPasses == 2

InitTransform ==
    /\ src \in Sources
    /\ prevTree = src
    /\ tree = src
    /\ passes = 0
    /\ ImporterIdle
    /\ HostIdle
    /\ PipelineIdle
    /\ ProbeIdle
    /\ FileIdle
    /\ SqlIdle
    /\ CliIdle

InstrumentSource ==
    /\ passes < MaxPasses
    /\ prevTree' = tree
    /\ tree' = instrument_source(tree)
    /\ passes' = passes + 1
    /\ UNCHANGED src
    /\ UNCHANGED <<importerVars, hostVars, pipelineVars, managerVars, probeVars, fileVars,
                   sqlVars, cliVars>>

NextTransform == InstrumentSource

SpecTransform == InitTransform /\ [][NextTransform]_vars


(***************************************************************************)
(* What the claims about the transform observe.                            *)
(***************************************************************************)
\* the decorator lists of all function declarations of a tree, in document
\* order; the transform keeps the declarations and their order
RECURSIVE DecoratorListsOfBody(_)
DecoratorListsOfNode(node) ==
    (IF node.kind \in FunctionKinds THEN <<node.decorator_list>> ELSE <<>>)
        \o DecoratorListsOfBody(node.body)

DecoratorListsOfBody(body) ==
    IF body = <<>> THEN <<>>
    ELSE DecoratorListsOfNode(Head(body)) \o DecoratorListsOfBody(Tail(body))

DecoratorListsOf(t) == DecoratorListsOfBody(t.body)

IsImport(node) == node.kind \in {"Import", "ImportFrom"}

ImportsOf(t) == SelectSeq(t.body, IsImport)

Reverse(s) == [i \in DOMAIN s |-> s[Len(s) + 1 - i]]

\* Python evaluates "@a @b def f" as f = a(b(f)): the decorators of a
\* decorator_list are applied from the last entry to the first
ApplicationOrder(decorator_list) == Reverse(decorator_list)

Probe == Name(ProbeAlias)

ProbeCount(decorator_list) ==
    Cardinality({i \in DOMAIN decorator_list : decorator_list[i] = Probe})

\* the Instrumentation Marker Set as the specification states it
InstrumentationMarkerSet ==
    {ProbeAlias, ProbeName, "property", "getter", "setter", "deleter",
     "staticmethod"}

CarriesMarker(decorator_list) ==
    \E i \in DOMAIN decorator_list :
        /\ decorator_list[i].kind \in {"Name", "Attribute"}
        /\ decorator_list[i].id \in InstrumentationMarkerSet

IsProbeImport(node) ==
    /\ node.kind = "ImportFrom"
    /\ node.module = ProbeModule
    /\ \E j \in DOMAIN node.names : node.names[j].name = ProbeName

HasProbeImport(t) == \E i \in DOMAIN t.body : IsProbeImport(t.body[i])

ProbeImportCount(t) == Cardinality({i \in DOMAIN t.body : IsProbeImport(t.body[i])})

InsertedImport == ImportFrom(ProbeModule, <<Alias(ProbeName, ProbeAlias)>>)

\* "after" is "before" with InsertedImport put after the docstring and all
\* leading __future__ imports and before every other statement
InsertedAtHead(before, after) ==
    /\ Len(after) = Len(before) + 1
    /\ \E k \in 0..Len(before) :
        /\ after[k + 1] = InsertedImport
        /\ \A j \in 1..k :
            /\ after[j] = before[j]
            /\ (j = 1 /\ IsDocstring(before[j])) \/ IsFutureImport(before[j])
        /\ \A j \in (k + 1)..Len(before) : after[j + 1].kind = before[j].kind
        /\ k < Len(before) =>
            /\ ~IsFutureImport(before[k + 1])
            /\ ~(k = 0 /\ IsDocstring(before[1]))

(***************************************************************************)
(* C2: every function that receives the probe gets it as the innermost     *)
(* wrapper: the probe is applied first and the modifiers the function      *)
(* already had are applied after it, in their order; with no modifiers the *)
(* probe is the only entry.                                                *)
(***************************************************************************)
C2_ProbeInnermost ==
    passes = 1 =>
        \A i \in DOMAIN DecoratorListsOf(src) :
            LET before == DecoratorListsOf(src)[i]
                after == DecoratorListsOf(tree)[i]
            IN  after # before =>
                    ApplicationOrder(after) = <<Probe>> \o ApplicationOrder(before)

(***************************************************************************)
(* C3: idempotence: transforming the result of a transform again changes   *)
(* no function's modifier list and no import statement.                    *)
(***************************************************************************)
C3_Idempotent ==
    passes = 2 =>
        /\ DecoratorListsOf(tree) = DecoratorListsOf(prevTree)
        /\ ImportsOf(tree) = ImportsOf(prevTree)

\* a second transform of a source in which the first one injected both a
\* wrapper and the import
C3_Witness ==
    /\ passes = 2
    /\ DecoratorListsOf(prevTree) # DecoratorListsOf(src)
    /\ ImportsOf(prevTree) # ImportsOf(src)

(***************************************************************************)
(* C4: exemption: a function whose modifier list contains a name of the    *)
(* Instrumentation Marker Set, bare or as the last component of a dotted   *)
(* name, has the same modifier list after the transform as before.         *)
(***************************************************************************)
C4_Exemption ==
    passes >= 1 =>
        \A i \in DOMAIN DecoratorListsOf(prevTree) :
            CarriesMarker(DecoratorListsOf(prevTree)[i]) =>
                DecoratorListsOf(tree)[i] = DecoratorListsOf(prevTree)[i]

(***************************************************************************)
(* C5: after the transform every function declaration that carries no      *)
(* marker, synchronous or asynchronous, at module level, nested or a       *)
(* method, carries exactly one probe wrapper.                              *)
(***************************************************************************)
C5_EveryFunctionProbed ==
    passes >= 1 =>
        \A i \in DOMAIN DecoratorListsOf(prevTree) :
            ~CarriesMarker(DecoratorListsOf(prevTree)[i]) =>
                ProbeCount(DecoratorListsOf(tree)[i]) = 1

(***************************************************************************)
(* C6: after the transform the module has exactly one import of the probe  *)
(* entry point; a source that already had one keeps its import statements  *)
(* unchanged, any other source gets exactly one import, inserted after the *)
(* docstring and the leading __future__ imports, before everything else.   *)
(***************************************************************************)
C6_ExactlyOneImport ==
    passes = 1 =>
        /\ ProbeImportCount(tree) = 1
        /\ HasProbeImport(src) => ImportsOf(tree) = ImportsOf(src)
        /\ ~HasProbeImport(src) =>
            /\ InsertedAtHead(src.body, tree.body)
            /\ Len(ImportsOf(tree)) = Len(ImportsOf(src)) + 1

\* the statement binds the name m__mp_profile at module level
BindsAlias(node) ==
    \/ /\ node.kind = "ImportFrom"
       /\ \E j \in DOMAIN node.names :
            \/ node.names[j].asname = ProbeAlias
            \/ node.names[j].asname = "" /\ node.names[j].name = ProbeAlias
    \/ /\ node.kind = "Import"
       /\ \E j \in DOMAIN node.names : node.names[j].asname = ProbeAlias

\* the number of probe wrappers on the function declarations of a tree
AliasUses(t) ==
    LET lists == DecoratorListsOf(t)
        RECURSIVE Sum(_)
        Sum(i) == IF i = 0 THEN 0 ELSE ProbeCount(lists[i]) + Sum(i - 1)
    IN  Sum(Len(lists))

IsDeclaration(node) == node.kind \in FunctionKinds \cup {"ClassDef"}

(***************************************************************************)
(* C28: when the transform has put the probe alias on a function of the    *)
(* module, a statement that binds the alias at module level stands before  *)
(* the first function or class declaration of the transformed module.      *)
(***************************************************************************)
C28_AliasBound ==
    (passes = 1 /\ AliasUses(tree) > AliasUses(src)) =>
        \E j \in DOMAIN tree.body :
            /\ BindsAlias(tree.body[j])
            /\ \A i \in DOMAIN tree.body : IsDeclaration(tree.body[i]) => j < i

(***************************************************************************)
(* SpecProbe: one thread calls wrapped callables, one after another and    *)
(* nested; every call runs tracked_profile's wrapper.  The consumer thread *)
(* is not scheduled: what emit puts stays in the queue.                    *)
(***************************************************************************)
InitProbe ==
    /\ ProbeIdle
    /\ PipelineIdle
    /\ TransformIdle
    /\ ImporterIdle
    /\ HostIdle
    /\ FileIdle
    /\ SqlIdle
    /\ CliIdle

\* a wrapped callable is called, by the program or by the body of a wrapped
\* callable that is running: start = time.time()
WrapperEnter ==
    /\ Len(calls) + Len(stack) < MaxCalls
    /\ Len(stack) < MaxDepth
    /\ stack # <<>> => Top.pc = "running"
    /\ \E f \in Callables :
        stack' = Append(stack, Frame(clock + 1, f))
    /\ clock' = clock + 1
    /\ UNCHANGED <<calls>>
    /\ UNCHANGED <<transformVars, importerVars, hostVars, pipelineVars, managerVars, fileVars,
                   sqlVars, cliVars>>

\* mem_before = memory_usage(-1, interval=0.1, timeout=1)[0]
WrapperMemBefore ==
    /\ stack # <<>>
    /\ Top.pc = "mem_before"
    /\ \/ /\ \E m \in MemSamples :
                stack' = SetTop([Top EXCEPT !.mem_before = m, !.pc = "invoke"])
          /\ UNCHANGED calls
       \/ /\ stack' = Pop
          /\ calls' = Append(calls, Ended(Top, NotInvoked, Raised(SamplingError)))
    /\ UNCHANGED <<clock>>
    /\ UNCHANGED <<transformVars, importerVars, hostVars, pipelineVars, managerVars, fileVars,
                   sqlVars, cliVars>>

\* profiled_func = profile(stream=stream)(func); profiled_func(*args,
\* **kwargs) enters the callable
WrapperInvoke ==
    /\ stack # <<>>
    /\ Top.pc = "invoke"
    /\ stack' = SetTop([Top EXCEPT !.invoked = @ + 1, !.pc = "running"])
    /\ UNCHANGED <<calls, clock>>
    /\ UNCHANGED <<transformVars, importerVars, hostVars, pipelineVars, managerVars, fileVars,
                   sqlVars, cliVars>>

\* the callable returns v, and profiled_func returns it
BodyReturns ==
    /\ stack # <<>>
    /\ Top.pc = "running"
    /\ \E v \in Values :
        stack' = SetTop([Top EXCEPT !.result = v, !.log = profile_log(Top.func),
                                    !.pc = "mem_after"])
    /\ UNCHANGED <<calls, clock>>
    /\ UNCHANGED <<transformVars, importerVars, hostVars, pipelineVars, managerVars, fileVars,
                   sqlVars, cliVars>>

\* the callable raises x: the wrapper is left at line 157
BodyRaises ==
    /\ stack # <<>>
    /\ Top.pc = "running"
    /\ \E x \in BodyExceptions :
        calls' = Append(calls, Ended(Top, Raised(x), on_body_exception(x)))
    /\ stack' = Pop
    /\ UNCHANGED <<clock>>
    /\ UNCHANGED <<transformVars, importerVars, hostVars, pipelineVars, managerVars, fileVars,
                   sqlVars, cliVars>>

\* mem_after = memory_usage(-1, interval=0.1, timeout=1)[0]
WrapperMemAfter ==
    /\ stack # <<>>
    /\ Top.pc = "mem_after"
    /\ \/ /\ \E m \in MemSamples :
                stack' = SetTop([Top EXCEPT !.mem_after = m, !.pc = "emit"])
          /\ UNCHANGED calls
       \/ /\ stack' = Pop
          /\ calls' = Append(calls, Ended(Top, Returned(Top.result),
                                          Raised(SamplingError)))
    /\ UNCHANGED <<clock>>
    /\ UNCHANGED <<transformVars, importerVars, hostVars, pipelineVars, managerVars, fileVars,
                   sqlVars, cliVars>>

\* the entry is built and ProfileManager().emit(entry) puts it in the queue
WrapperEmit ==
    /\ stack # <<>>
    /\ Top.pc = "emit"
    /\ queue' = Append(queue, ProfileEntry(Top))
    /\ emitted' = Append(emitted, ProfileEntry(Top))
    /\ stack' = SetTop([Top EXCEPT !.emits = @ + 1, !.pc = "return"])
    /\ UNCHANGED <<calls, clock>>
    /\ UNCHANGED <<stop_event, handler, backends, wpc, wentry, whandler, wret,
                   spc, shutdowns, joinTimedOut, emittedAtShutdown, dropped,
                   drainHandled>>
    /\ UNCHANGED <<transformVars, importerVars, hostVars, fileVars,
                   sqlVars, cliVars>>
    /\ instances' = ProfileManager_new(instances)
    /\ UNCHANGED <<reported, set_pc, set_arg, old, set_close_raised,
                   set_handlers, replaced, wdeq, passed, wcall, backend_ops>>

\* return result
WrapperReturn ==
    /\ stack # <<>>
    /\ Top.pc = "return"
    /\ calls' = Append(calls, Ended(Top, Returned(Top.result),
                                    Returned(wrapper_result(Top.result))))
    /\ stack' = Pop
    /\ UNCHANGED <<clock>>
    /\ UNCHANGED <<transformVars, importerVars, hostVars, pipelineVars, managerVars, fileVars,
                   sqlVars, cliVars>>

NextProbe ==
    \/ WrapperEnter
    \/ WrapperMemBefore
    \/ WrapperInvoke
    \/ BodyReturns
    \/ BodyRaises
    \/ WrapperMemAfter
    \/ WrapperEmit
    \/ WrapperReturn

SpecProbe == InitProbe /\ [][NextProbe]_vars

\* the emitted entries of the invocation that started at time t
EntriesOf(t) == SelectSeq(emitted, LAMBDA e : e.timestamp = t)

\* the ended invocations that the wrapper left by returning
CompletedNormally == SelectSeq(calls, LAMBDA c : c.wrapper.kind = "returned")

(***************************************************************************)
(* C13: for every ended invocation in which the wrapped callable raised,   *)
(* the wrapper was left by exactly that exception, the wrapper put nothing *)
(* in the queue and no emitted entry belongs to that invocation.           *)
(***************************************************************************)
C13_ExceptionTransparency ==
    \A i \in DOMAIN calls :
        calls[i].body.kind = "raised" =>
            /\ calls[i].wrapper = calls[i].body
            /\ calls[i].emits = 0
            /\ EntriesOf(calls[i].start) = <<>>

\* an outer wrapped call raised after a nested wrapped call had completed
C13_Witness ==
    /\ Len(calls) = 2
    /\ calls[1].wrapper.kind = "returned"
    /\ calls[2].start < calls[1].start
    /\ calls[2].body = Raised("KeyError")
    /\ calls[2].wrapper = Raised("KeyError")
    /\ Len(queue) = 1

C15_ProbeFailureIsolated ==
    \A i \in DOMAIN calls :
        /\ calls[i].invoked = 1
        /\ calls[i].wrapper = calls[i].body
        /\ (~calls[i].func.has_code /\ calls[i].emits = 1) =>
                EntriesOf(calls[i].start)[1].log = ""
        /\ calls[i].emits = 0 => EntriesOf(calls[i].start) = <<>>

(***************************************************************************)
(* C25: every entry the probe builds has mem_diff = mem_after -            *)
(* mem_before, and so has what each backend persists of it: the row the    *)
(* relational backend inserts, which handle commits without raising, and   *)
(* the element the file backend writes, as the report builder reads it     *)
(* back; both keep the three values of the entry.                          *)
(***************************************************************************)
C25_MemDiffPersisted ==
    \A i \in DOMAIN emitted :
        LET e == emitted[i]
            r == SQLiteProfileHandler_handle(EmptyDb, TRUE, AsDict(e))
            row == CHOOSE row \in r.conn.entries : TRUE
            read == load_from_json(json_dump(e))
        IN  /\ e.mem_diff = e.mem_after - e.mem_before
            /\ r.raised = ""
            /\ r.conn.entries = {row}
            /\ <<row.mem_before, row.mem_after, row.mem_diff>>
                    = <<e.mem_before, e.mem_after, e.mem_diff>>
            /\ row.mem_diff = row.mem_after - row.mem_before
            /\ <<read.mem_before, read.mem_after, read.mem_diff>>
                    = <<e.mem_before, e.mem_after, e.mem_diff>>
            /\ read.mem_diff = read.mem_after - read.mem_before

\* two wrapped calls have emitted: one during which the memory grew, one
\* during which it shrank
C25_Witness ==
    /\ Len(emitted) = 2
    /\ emitted[1].mem_before = 10
    /\ emitted[1].mem_after = 12
    /\ emitted[1].mem_diff = 2
    /\ emitted[2].mem_before = 12
    /\ emitted[2].mem_after = 10
    /\ emitted[2].mem_diff = -2
    /\ json_dump(emitted[2]).mem_diff = <<"-", "2", ".", "0">>

(***************************************************************************)
(* C26: the entries reach the queue, and so the backend, in ascending      *)
(* order of their timestamp, for sequential and for nested wrapped calls.  *)
(***************************************************************************)
C26_PersistedOrder ==
    \A i, j \in DOMAIN emitted :
        i < j => emitted[i].timestamp <= emitted[j].timestamp

(***************************************************************************)
(* C16: whenever handle raises, in the while loop or in the loop that      *)
(* empties the queue, the failure is caught and reported, only that entry  *)
(* is dropped, and the entries are passed to the backend in queue order,   *)
(* the ones after a failure included.                                      *)
(***************************************************************************)
C16_FailureIsolated ==
    /\ reported = dropped
    /\ \A i \in DOMAIN passed : passed[i] = emitted[i]
    /\ \A i \in DOMAIN dropped : ~dropped[i].good \/ backends[handler].closed

(***************************************************************************)
(* SpecShutdown: SpecPipeline with the scheduling of the thread that calls *)
(* shutdown: each of its steps is taken once it stays possible.  Nothing   *)
(* is assumed of the consumer thread or of the backend's handle.           *)
(***************************************************************************)
SpecShutdown ==
    /\ InitPipeline
    /\ [][NextPipeline]_vars
    /\ WF_vars(ShutdownPutSentinel)
    /\ WF_vars(ShutdownJoined \/ ShutdownJoinTimeout)
    /\ WF_vars(ShutdownClose)

EmitBeforeShutdown ==
    /\ ~stop_event
    /\ Emit

Worker ==
    \/ WorkerWhile
    \/ WorkerGet
    \/ WorkerGetTimeout
    \/ WorkerCallHandle
    \/ WorkerHandleReturns
    \/ WorkerDrain

NextStop ==
    \/ EmitBeforeShutdown
    \/ WorkerWhile
    \/ WorkerGet
    \/ WorkerGetTimeout
    \/ WorkerCallHandle
    \/ WorkerHandleReturns
    \/ WorkerDrain
    \/ ShutdownSetStop
    \/ ShutdownPutSentinel
    \/ ShutdownJoined
    \/ ShutdownJoinTimeout
    \/ ShutdownClose

SpecStop == InitPipeline /\ [][NextStop]_vars /\ WF_vars(Worker)

(***************************************************************************)
(* C27: once shutdown has been called the consumer thread terminates; a    *)
(* wait on the empty queue ends by going back to the test of the stop      *)
(* flag; when the thread terminates the queue is empty; the sentinel is    *)
(* never passed to handle.                                                 *)
(***************************************************************************)
C27_CooperativeStop ==
    /\ stop_event ~> (wpc = "done")
    /\ [][(wpc = "get" /\ queue = <<>> /\ wpc' # "get") => wpc' = "while"]_vars
    /\ [][(wpc # "done" /\ wpc' = "done") => queue' = <<>>]_vars
    /\ [](\A i \in DOMAIN passed : passed[i] # None)

\* the consumer thread has terminated after a shutdown call: the sentinel
\* was the last item it took from the queue, and every emitted entry was
\* passed to handle, one of them in the loop that empties the queue
C27_Witness ==
    /\ wpc = "done"
    /\ stop_event
    /\ shutdowns = 1
    /\ queue = <<>>
    /\ wentry = None
    /\ passed = emitted
    /\ Len(emitted) = MaxEmit
    /\ drainHandled = 1

(***************************************************************************)
(* SpecManager: SpecPipeline and a thread that calls set_handler; the       *)
(* entries emitted are ones on which handle does not fail.                 *)
(***************************************************************************)
InitManager == InitPipeline

EmitGood == EmitEntry({TRUE}, MaxSwapEmit)

\* ProfileManager().set_handler(handler): old = getattr(self, '_handler',
\* None); try: old.close() except Exception: pass.  The call waits for the
\* lock of a JsonFileProfileHandler that the consumer is inside
SetHandlerCloseOld ==
    /\ set_pc = "idle"
    /\ set_handlers < MaxSetHandlers
    /\ LockFree(handler)
    /\ \E h \in BackendIds \ {handler} : set_arg' = h
    /\ old' = handler
    /\ instances' = ProfileManager_new(instances)
    /\ set_handlers' = set_handlers + 1
    /\ backends' = [backends EXCEPT ![handler] = close(@)]
    /\ set_close_raised' = close_raises(handler, backends[handler])
    /\ backend_ops' = backend_ops \cup {BackendOp("close", SetHandlerCaller)}
    /\ set_pc' = "assign"
    /\ UNCHANGED <<reported, replaced, wdeq, passed, wcall>>
    /\ UNCHANGED <<queue, stop_event, handler, wpc, wentry, whandler, wret,
                   spc, shutdowns, joinTimedOut, emitted, emittedAtShutdown,
                   dropped, drainHandled>>
    /\ UNCHANGED <<transformVars, importerVars, hostVars, probeVars, fileVars,
                   sqlVars, cliVars>>

\* set_handler: self._handler = handler
SetHandlerAssign ==
    /\ set_pc = "assign"
    /\ handler' = set_handler_result(old, set_arg, set_close_raised)
    /\ replaced' = old
    /\ set_pc' = "idle"
    /\ UNCHANGED <<reported, instances, set_arg, old, set_close_raised,
                   set_handlers, wdeq, passed, wcall, backend_ops>>
    /\ UNCHANGED <<queue, stop_event, backends, wpc, wentry, whandler, wret,
                   spc, shutdowns, joinTimedOut, emitted, emittedAtShutdown,
                   dropped, drainHandled>>
    /\ UNCHANGED <<transformVars, importerVars, hostVars, probeVars, fileVars,
                   sqlVars, cliVars>>

NextManager ==
    \/ EmitGood
    \/ WorkerWhile
    \/ WorkerGet
    \/ WorkerGetTimeout
    \/ WorkerCallHandle
    \/ WorkerHandleReturns
    \/ WorkerDrain
    \/ ShutdownSetStop
    \/ ShutdownPutSentinel
    \/ ShutdownJoined
    \/ ShutdownJoinTimeout
    \/ ShutdownClose
    \/ SetHandlerCloseOld
    \/ SetHandlerAssign

SpecManager == InitManager /\ [][NextManager]_vars

\* the latest handle call was made on an entry dequeued after a set_handler
\* call had returned, with no set_handler call begun since the dequeue
AfterSwap ==
    /\ passed # <<>>
    /\ wcall.deq.stable
    /\ wcall.deq.calls >= 1
    /\ wcall.calls = wcall.deq.calls

(***************************************************************************)
(* C17: set_handler(new) has invoked close on the previous backend before  *)
(* new is the active backend; when set_handler has returned new is the     *)
(* active backend, also when that close raised; an entry the consumer      *)
(* dequeues after set_handler has returned (and handles before another     *)
(* set_handler call begins) is passed to new and not to the previous       *)
(* backend.                                                                *)
(***************************************************************************)
C17_HandlerSwap ==
    /\ set_pc = "assign" => handler = old /\ backends[old].closed
    /\ (set_pc = "idle" /\ set_handlers >= 1) =>
        /\ handler = set_arg
        /\ replaced = old
        /\ backends[replaced].closed
        /\ BackendOp("close", SetHandlerCaller) \in backend_ops
    /\ AfterSwap =>
        /\ wcall.backend = wcall.deq.active
        /\ wcall.backend # wcall.replaced

\* shutdown had closed the backend, so old.close() raised in set_handler;
\* the swap was made and an entry dequeued after it went to the new backend
C17_Witness ==
    /\ set_pc = "idle"
    /\ set_handlers = 1
    /\ set_close_raised
    /\ handler = "SQLiteProfileHandler"
    /\ AfterSwap
    /\ wcall.backend = "SQLiteProfileHandler"
    /\ wcall.replaced = DefaultBackend

(***************************************************************************)
(* C19, as claimed: there is at most one consumer thread and no other      *)
(* thread ever invokes an operation on a backend.                          *)
(***************************************************************************)
C19_ExclusiveOwnership ==
    /\ instances <= 1
    /\ \A o \in backend_ops : o.thread = Consumer

(***************************************************************************)
(* C19, amended: there is at most one consumer thread and handle is        *)
(* invoked by that thread only; close is invoked by the threads that call  *)
(* set_handler and shutdown.                                               *)
(***************************************************************************)
C19_SingleConsumerHandles ==
    /\ instances <= 1
    /\ \A o \in backend_ops :
        /\ o.op = "handle" => o.thread = Consumer
        /\ o.op = "close" => o.thread \in {ShutdownCaller, SetHandlerCaller}
    /\ passed # <<>> => BackendOp("handle", Consumer) \in backend_ops

\* the consumer has handled entries, set_handler and shutdown have each
\* closed a backend
C19_Witness ==
    /\ backend_ops = {BackendOp("handle", Consumer),
                      BackendOp("close", SetHandlerCaller),
                      BackendOp("close", ShutdownCaller)}
    /\ backends[DefaultBackend].received # <<>>
    /\ backends["SQLiteProfileHandler"].received # <<>>
    /\ instances = 1

(***************************************************************************)
(* C29: in every interleaving of emit, set_handler, shutdown and the       *)
(* consumer thread, the consumer is never inside handle on a backend on    *)
(* which close has been invoked, whether handle was entered after close or *)
(* close ran during handle, and no dequeued entry is lost to a backend     *)
(* that is closed already.                                                 *)
(***************************************************************************)
C29_NoUseAfterClose ==
    /\ wpc = "in_handle" => ~backends[whandler].closed
    /\ dropped = <<>>

(***************************************************************************)
(* SpecFile: threads call handle on one JsonFileProfileHandler, and one    *)
(* thread calls close.                                                     *)
(***************************************************************************)
InitFile ==
    /\ FileIdle
    /\ SqlIdle
    /\ CliIdle
    /\ ProbeIdle
    /\ PipelineIdle
    /\ TransformIdle
    /\ ImporterIdle
    /\ HostIdle

OthersIdle ==
    /\ UNCHANGED <<transformVars, importerVars, hostVars, pipelineVars>>
    /\ UNCHANGED <<managerVars, probeVars, sqlVars, cliVars>>

\* handle(entry): with self._lock
HandleLock(t) ==
    /\ fpc[t] = "idle"
    /\ handles < MaxHandles
    /\ lock_acquirable(lock)
    /\ lock' = t
    /\ handles' = handles + 1
    /\ \E ok \in BOOLEAN : farg' = [farg EXCEPT ![t] = JsonEntry(handles + 1, ok)]
    /\ fpc' = [fpc EXCEPT ![t] = "separator"]
    /\ UNCHANGED <<file, file_closed, first, closes, completed>>
    /\ OthersIdle

\* handle: if not self._first: self._file.write(',\n') else: self._first = False
HandleSeparator(t) ==
    /\ fpc[t] = "separator"
    /\ IF first
       THEN /\ first' = FALSE
            /\ fpc' = [fpc EXCEPT ![t] = "dump"]
            /\ UNCHANGED <<file, lock>>
       ELSE IF write_raises(file_closed)
       THEN /\ lock' = NoThread
            /\ fpc' = [fpc EXCEPT ![t] = "idle"]
            /\ UNCHANGED <<file, first>>
       ELSE /\ file' = Append(file, Separator)
            /\ fpc' = [fpc EXCEPT ![t] = "dump"]
            /\ UNCHANGED <<first, lock>>
    /\ UNCHANGED <<file_closed, farg, handles, closes, completed>>
    /\ OthersIdle

\* handle: json.dump(entry, self._file, ...); on an entry that is not
\* serializable it raises after writing the part before the bad value
HandleDump(t) ==
    /\ fpc[t] = "dump"
    /\ IF write_raises(file_closed)
       THEN /\ lock' = NoThread
            /\ fpc' = [fpc EXCEPT ![t] = "idle"]
            /\ UNCHANGED file
       ELSE IF farg[t].serializable
       THEN /\ file' = Append(file, Element(farg[t].id))
            /\ fpc' = [fpc EXCEPT ![t] = "flush"]
            /\ UNCHANGED lock
       ELSE /\ file' = Append(file, Partial(farg[t].id))
            /\ lock' = NoThread
            /\ fpc' = [fpc EXCEPT ![t] = "idle"]
    /\ UNCHANGED <<file_closed, first, farg, handles, closes, completed>>
    /\ OthersIdle

\* handle: self._file.flush(); the lock is released and handle returns
HandleFlush(t) ==
    /\ fpc[t] = "flush"
    /\ completed' = Append(completed, farg[t])
    /\ lock' = NoThread
    /\ fpc' = [fpc EXCEPT ![t] = "idle"]
    /\ UNCHANGED <<file, file_closed, first, farg, handles, closes>>
    /\ OthersIdle

\* close(): with self._lock
CloseLock ==
    /\ fpc[Closer] = "idle"
    /\ closes < MaxCloses
    /\ lock_acquirable(lock)
    /\ lock' = Closer
    /\ closes' = closes + 1
    /\ fpc' = [fpc EXCEPT ![Closer] = "write"]
    /\ UNCHANGED <<file, file_closed, first, farg, handles, completed>>
    /\ OthersIdle

\* close: self._file.write('\n]\n')
CloseWrite ==
    /\ fpc[Closer] = "write"
    /\ IF write_raises(file_closed)
       THEN /\ lock' = NoThread
            /\ fpc' = [fpc EXCEPT ![Closer] = "idle"]
            /\ UNCHANGED file
       ELSE /\ file' = Append(file, CloseBracket)
            /\ fpc' = [fpc EXCEPT ![Closer] = "close"]
            /\ UNCHANGED lock
    /\ UNCHANGED <<file_closed, first, farg, handles, closes, completed>>
    /\ OthersIdle

\* close: self._file.close(); the lock is released and close returns
CloseFile ==
    /\ fpc[Closer] = "close"
    /\ file_closed' = TRUE
    /\ lock' = NoThread
    /\ fpc' = [fpc EXCEPT ![Closer] = "idle"]
    /\ UNCHANGED <<file, first, farg, handles, closes, completed>>
    /\ OthersIdle

NextFile ==
    \/ \E t \in Writers : HandleLock(t)
    \/ \E t \in Writers : HandleSeparator(t)
    \/ \E t \in Writers : HandleDump(t)
    \/ \E t \in Writers : HandleFlush(t)
    \/ CloseLock
    \/ CloseWrite
    \/ CloseFile

SpecFile == InitFile /\ [][NextFile]_vars

(***************************************************************************)
(* C20: after concurrent handle calls and close, the file content is one   *)
(* JSON array: the opening bracket, one element per handle call that       *)
(* completed, one separator between consecutive elements, and the closing  *)
(* bracket, written once; what a handle call writes is not interleaved     *)
(* with what another handle call or close writes.                          *)
(***************************************************************************)
C20_FileWellFormed ==
    file_closed => file = JsonArray(completed)

(***************************************************************************)
(* SpecSqlite: one thread calls handle on one SQLiteProfileHandler over a  *)
(* new database file, with entries as the probe builds them and with       *)
(* entries that have one flaw, and calls close.                            *)
(***************************************************************************)
\* entries with str and float values, as the probe builds them
WellFormedEntries ==
    {AsDict([func |-> "f", mem_before |-> 10, mem_after |-> a,
             mem_diff |-> a - 10, timestamp |-> t, log |-> l]) :
        a \in MemSamples, t \in {1, 2}, l \in LogTexts}

\* an entry whose measurements are stored as they are, given as a str
NumericTextEntries ==
    {[e EXCEPT !.mem_before = Str("10")] :
        e \in {w \in WellFormedEntries :
                    w.timestamp.num = 1 /\ w.log.text = "A"}}

\* entries on which handle raises
FlawedEntries ==
    UNION {{[e EXCEPT !.func = Absent],
            [e EXCEPT !.func = NoneValue],
            [e EXCEPT !.mem_after = Str("abc")],
            [e EXCEPT !.timestamp = NoneValue],
            [e EXCEPT !.log = Absent],
            [e EXCEPT !.log = NoneValue]} :
        e \in {w \in WellFormedEntries :
                    w.timestamp.num = 1 /\ w.mem_after.num = 12}}

SqlEntries == WellFormedEntries \cup NumericTextEntries \cup FlawedEntries

InitSqlite ==
    /\ SqlIdle
    /\ CliIdle
    /\ FileIdle
    /\ ProbeIdle
    /\ PipelineIdle
    /\ TransformIdle
    /\ ImporterIdle
    /\ HostIdle

SqlOthersIdle ==
    /\ UNCHANGED <<transformVars, importerVars, hostVars, pipelineVars>>
    /\ UNCHANGED <<managerVars, probeVars, fileVars, cliVars>>

\* handle(entry), the commit at its end included
SqlHandle ==
    /\ Len(sql_calls) < MaxSqlHandles
    /\ \E e \in SqlEntries :
        LET r == SQLiteProfileHandler_handle(conn, conn_open, e)
        IN  /\ conn' = r.conn
            /\ db' = IF r.raised = "" THEN r.conn ELSE db
            /\ sql_calls' = Append(sql_calls, SqlCall(e, r.raised, r.rowid))
    /\ UNCHANGED conn_open
    /\ SqlOthersIdle

\* close()
SqlClose ==
    /\ conn_open
    /\ conn_open' = FALSE
    /\ conn' = SQLiteProfileHandler_close(db, conn)
    /\ UNCHANGED <<db, sql_calls>>
    /\ SqlOthersIdle

NextSqlite ==
    \/ SqlHandle
    \/ SqlClose

SpecSqlite == InitSqlite /\ [][NextSqlite]_vars

\* the handle calls that returned, in order
Succeeded == SelectSeq(sql_calls, LAMBDA c : c.raised = "")

\* the log texts of the handle calls that returned
HandledTexts == {Succeeded[i].entry.log.text : i \in DOMAIN Succeeded}

(***************************************************************************)
(* C21: after a sequence of handle calls that all returned, the logs table *)
(* holds exactly one row per distinct log text handled, its key the hash   *)
(* of the text; distinct texts have distinct hashes; the entries table     *)
(* holds one row per call, and the row of each call references the logs    *)
(* row whose text is the log of the call's entry.                          *)
(***************************************************************************)
C21_DedupAndIntegrity ==
    Len(Succeeded) = Len(sql_calls) =>
        /\ {r.log_text : r \in db.logs} = HandledTexts
        /\ Cardinality(db.logs) = Cardinality(HandledTexts)
        /\ \A r \in db.logs : r.hash = _hash_log(r.log_text)
        /\ Cardinality(db.entries) = Len(sql_calls)
        /\ \A i \in DOMAIN sql_calls :
            \E r \in db.entries :
                /\ r.id = sql_calls[i].rowid
                /\ \E l \in db.logs :
                    /\ l.hash = r.log_hash
                    /\ l.log_text = sql_calls[i].entry.log.text

\* three calls returned, two of them with the same log text: three entries
\* rows, two logs rows
C21_Witness ==
    /\ Len(sql_calls) = 3
    /\ Len(Succeeded) = 3
    /\ sql_calls[1].entry.log = Str("A")
    /\ sql_calls[2].entry.log = Str("B")
    /\ sql_calls[3].entry.log = Str("A")
    /\ Cardinality(db.logs) = 2
    /\ Cardinality(db.entries) = 3
    /\ \E r \in db.entries : r.id = 3 /\ r.log_hash = _hash_log("A")

(***************************************************************************)
(* C22: handle is atomic: what has been committed to the logs table and to *)
(* the entries table is what the handle calls that returned wrote, and a   *)
(* logs row written by a handle call that raised is never committed.       *)
(***************************************************************************)
C22_HandleAtomic ==
    /\ \A r \in db.logs : r.log_text \in HandledTexts
    /\ Cardinality(db.entries) = Len(Succeeded)

(***************************************************************************)
(* C23: each handle call that returned added exactly one entries row,      *)
(* with the entry's func and the numbers of its mem_before, mem_after,     *)
(* mem_diff and timestamp, under an id greater than the ids of the rows    *)
(* added before; the rows added before stay as they were; reading the      *)
(* entries by ascending id gives them in the order they were handled.      *)
(***************************************************************************)
C23_OneRowPerHandle ==
    /\ Cardinality(db.entries) = Len(Succeeded)
    /\ \A i \in DOMAIN Succeeded :
        LET e == Succeeded[i].entry
        IN  /\ \E r \in db.entries :
                /\ r.id = Succeeded[i].rowid
                /\ r.func = e.func.text
                /\ r.mem_before = float(e.mem_before)
                /\ r.mem_after = float(e.mem_after)
                /\ r.mem_diff = float(e.mem_diff)
                /\ r.timestamp = float(e.timestamp)
            /\ e.mem_after.type = "float" => \E r \in db.entries :
                /\ r.id = Succeeded[i].rowid
                /\ r.mem_after = e.mem_after.num
                /\ r.mem_diff = e.mem_diff.num
                /\ r.timestamp = e.timestamp.num
            /\ \A j \in 1..(i - 1) : Succeeded[j].rowid < Succeeded[i].rowid
    /\ Len(load_entries(db)) = Len(Succeeded)
    /\ \A i \in DOMAIN load_entries(db) :
        LET e == Succeeded[i].entry
            d == load_entries(db)[i]
        IN  /\ d.func = e.func.text
            /\ d.mem_before = float(e.mem_before)
            /\ d.mem_after = float(e.mem_after)
            /\ d.mem_diff = float(e.mem_diff)
            /\ d.timestamp = float(e.timestamp)
            /\ d.log = e.log.text

\* two calls returned, the second with an earlier timestamp than the
\* first, and a call between them raised on the entries insert: the rows
\* have the ids 1 and 2 and are read in the order handled
C23_Witness ==
    /\ Len(sql_calls) = 3
    /\ sql_calls[1].entry.timestamp = Float(2)
    /\ sql_calls[1].entry.mem_after = Float(10)
    /\ sql_calls[2].raised = "IntegrityError"
    /\ sql_calls[3].entry.timestamp = Float(1)
    /\ sql_calls[3].entry.mem_after = Float(12)
    /\ sql_calls[3].rowid = 2
    /\ Len(load_entries(db)) = 2
    /\ load_entries(db)[1].timestamp = 2
    /\ load_entries(db)[1].mem_diff = 0
    /\ load_entries(db)[2].mem_diff = 2

(***************************************************************************)
(* SpecCli: one run of cli.main: the checks of the script path and of the  *)
(* profiling dependency, run_instrumented, and the exit of the process.    *)
(***************************************************************************)
InitCli ==
    /\ cpc = "start"
    /\ is_file \in BOOLEAN
    /\ has_memory_profiler \in BOOLEAN
    /\ exit_status = NoExit
    /\ hpc = "idle"
    /\ entry = NoEntry
    /\ cwd \in {"start_dir", TargetDir}
    /\ sys_path = <<"site-packages">>
    /\ sys_argv \in {<<"memory-tracker", "entry.py">>,
                     <<"memory-tracker", "entry.py", "arg">>}
    /\ meta_path = <<"PathFinder">>
    /\ old_cwd = ""
    /\ sys_argv_saved = <<>>
    /\ outcome = NoOutcome
    /\ targetActed = FALSE
    /\ atStart = Before(cwd, sys_path, sys_argv, meta_path)
    /\ execStarted = FALSE
    /\ targetEnd = NoOutcome
    /\ traceback_printed = FALSE
    /\ TransformIdle
    /\ ImporterIdle
    /\ PipelineIdle
    /\ ProbeIdle
    /\ FileIdle
    /\ SqlIdle

CliOthersIdle ==
    /\ UNCHANGED <<transformVars, importerVars, hostVars, pipelineVars>>
    /\ UNCHANGED <<managerVars, probeVars, fileVars, sqlVars>>

\* if not os.path.isfile(args.script): ... sys.exit(2)
MainCheckScript ==
    /\ cpc = "start"
    /\ exit_status' = check_script(is_file)
    /\ cpc' = IF check_script(is_file) = NoExit THEN "file_checked" ELSE "exited"
    /\ UNCHANGED <<is_file, has_memory_profiler>>
    /\ CliOthersIdle

\* try: import memory_profiler except ImportError: ... sys.exit(3)
MainCheckDependency ==
    /\ cpc = "file_checked"
    /\ exit_status' = check_dependency(has_memory_profiler)
    /\ cpc' = IF check_dependency(has_memory_profiler) = NoExit
              THEN "run_instrumented" ELSE "exited"
    /\ UNCHANGED <<is_file, has_memory_profiler>>
    /\ CliOthersIdle

\* run_instrumented(args.script, extra_argv=args.args) is called
MainPrepare ==
    /\ cpc = "run_instrumented"
    /\ Prepare

\* run_instrumented is left, by returning or by an exception: the except
\* clauses of main, and the exit of the interpreter
MainExit ==
    /\ cpc = "run_instrumented"
    /\ hpc = "exited"
    /\ exit_status' = main_exit_status(outcome)
    /\ cpc' = "exited"
    /\ UNCHANGED <<is_file, has_memory_profiler>>
    /\ CliOthersIdle

NextCli ==
    \/ MainCheckScript
    \/ MainCheckDependency
    \/ MainPrepare
    \/ BeginExecute
    \/ TargetSetsArgv
    \/ TargetChdir
    \/ TargetInsertsFinder
    \/ TargetRemovesImporter
    \/ EndExecute
    \/ Cleanup
    \/ MainExit

SpecCli == InitCli /\ [][NextCli]_vars

(***************************************************************************)
(* C24: the exit status of the process is 2 when the script path is not a  *)
(* file, whatever else holds, and 3 when the profiling dependency cannot   *)
(* be imported, and in both cases run_instrumented is not called; it is 1  *)
(* when the entry file cannot be read or transformed and when the target   *)
(* ends by an exception, 0 when the target runs to its end, 130 when it is *)
(* interrupted, and the code of the target's own exit request otherwise.   *)
(***************************************************************************)
C24_ExitCodes ==
    cpc = "exited" =>
        /\ ~is_file => exit_status = 2 /\ hpc = "idle" /\ ~execStarted
        /\ (is_file /\ ~has_memory_profiler) =>
                exit_status = 3 /\ hpc = "idle" /\ ~execStarted
        /\ (is_file /\ has_memory_profiler) =>
            /\ entry.kind # "ok" => exit_status = 1 /\ ~execStarted
            /\ (entry.kind = "ok" /\ targetEnd.exc = "normal") => exit_status = 0
            /\ (entry.kind = "ok" /\ targetEnd.exc = "Exception") => exit_status = 1
            /\ (entry.kind = "ok" /\ targetEnd.exc = "KeyboardInterrupt") =>
                    exit_status = 130
            /\ (entry.kind = "ok" /\ targetEnd.exc = "SystemExit") =>
                    exit_status = targetEnd.code

\* the target was interrupted by the user after it had changed sys.argv:
\* the process exits with 130
C24_Witness ==
    /\ cpc = "exited"
    /\ is_file
    /\ has_memory_profiler
    /\ execStarted
    /\ targetActed
    /\ targetEnd = Outcome("KeyboardInterrupt", 0)
    /\ exit_status = 130

=============================================================================
